---------------------------- MODULE Spec2Model ----------------------------
(***************************************************************************)
(* Presentation-generation pipeline of pronghorn                           *)
(* (supabase/functions/presentation-agent, kept in src/.lovable/plan.md):  *)
(*   - parseAgentResponseText, the resilient JSON recovery;                *)
(*   - buildStoryStructure and generateSlideOutline, the planner;          *)
(*   - generateSingleSlide / createFallbackSlide and the serve() run.      *)
(*                                                                         *)
(* Text is a sequence of lexical atoms: every punctuation character, a     *)
(* blank and a newline are atoms of their own, a code fence (three         *)
(* backticks) is one atom, and a word (json, true, Sure, a title) is one   *)
(* atom.  Regular expressions and indexOf/slice of the source are          *)
(* evaluated on these atoms.  String escapes are not modelled: string      *)
(* contents never hold a quote, a backslash or a control character.        *)
(***************************************************************************)
EXTENDS Integers, Sequences, FiniteSets, TLC

(***************************************************************************)
(* Atoms                                                                   *)
(***************************************************************************)
SP == " "
NL == "\n"
\* the double quote character
Q == "QUOTE"
\* three backticks
FENCE == "FENCE"
EOF == ""
WS == {SP, NL}
DigitAtoms == <<"0", "1", "2", "3", "4", "5", "6", "7", "8", "9">>
IsDigit(a) == \E d \in 1..10 : DigitAtoms[d] = a
DigitVal(a) == (CHOOSE d \in 1..10 : DigitAtoms[d] = a) - 1

At(s, i) == IF i \in 1..Len(s) THEN s[i] ELSE EOF
Slice(s, from, to) == IF from > to THEN <<>> ELSE SubSeq(s, from, to)

(***************************************************************************)
(* JSON values.  One record shape for every value, so that values of       *)
(* different kinds can be compared: k is the member key when the value is  *)
(* a member of an object, t the kind, n the number, s the string contents  *)
(* (atoms), kids the elements of an array or the members of an object.     *)
(***************************************************************************)
NoKey == <<>>
JV(t, n, s, kids) == [k |-> NoKey, t |-> t, n |-> n, s |-> s, kids |-> kids]
JNull == JV("null", 0, <<>>, <<>>)
JTrue == JV("true", 0, <<>>, <<>>)
JFalse == JV("false", 0, <<>>, <<>>)
JNum(n) == JV("num", n, <<>>, <<>>)
JStr(s) == JV("str", 0, s, <<>>)
JArr(kids) == JV("arr", 0, <<>>, kids)
JObj(members) == JV("obj", 0, <<>>, members)
Member(key, v) == [v EXCEPT !.k = key]
Unkeyed(v) == [v EXCEPT !.k = NoKey]

IsArray(v) == v.t = "arr"
IsObject(v) == v.t = "obj"
\* JavaScript truthiness of a parsed value: null, false, 0 and "" are falsy.
Truthy(v) ==
  CASE v.t = "null" -> FALSE
    [] v.t = "false" -> FALSE
    [] v.t = "num" -> v.n # 0
    [] v.t = "str" -> v.s # <<>>
    [] OTHER -> TRUE
\* a || b
OrElse(a, b) == IF Truthy(a) THEN a ELSE b
\* typeof v === "object" (null, arrays and objects)
TypeofObject(v) == v.t \in {"null", "arr", "obj"}

HasKey(o, key) == \E i \in 1..Len(o.kids) : o.kids[i].k = key
\* o[key]; undefined (a missing key, or o not an object) reads as JNull here,
\* every use in the source only tests truthiness or Array.isArray.
Get(o, key) ==
  IF o.t = "obj" /\ HasKey(o, key)
  THEN Unkeyed(o.kids[CHOOSE i \in 1..Len(o.kids) : o.kids[i].k = key])
  ELSE JNull

(***************************************************************************)
(* JSON.stringify                                                          *)
(***************************************************************************)
RECURSIVE Digits(_)
Digits(n) == IF n < 10 THEN <<DigitAtoms[n + 1]>>
             ELSE Digits(n \div 10) \o <<DigitAtoms[(n % 10) + 1]>>

RECURSIVE Stringify(_), StringifyList(_, _)
Stringify(v) ==
  CASE v.t = "null" -> <<"null">>
    [] v.t = "true" -> <<"true">>
    [] v.t = "false" -> <<"false">>
    [] v.t = "num" -> Digits(v.n)
    [] v.t = "str" -> <<Q>> \o v.s \o <<Q>>
    [] v.t = "arr" -> <<"[">> \o StringifyList(v.kids, FALSE) \o <<"]">>
    [] OTHER -> <<"{">> \o StringifyList(v.kids, TRUE) \o <<"}">>
StringifyList(kids, keyed) ==
  IF kids = <<>> THEN <<>>
  ELSE (IF keyed THEN <<Q>> \o kids[1].k \o <<Q, ":">> ELSE <<>>)
       \o Stringify(kids[1])
       \o (IF Len(kids) > 1 THEN <<",">> ELSE <<>>)
       \o StringifyList(Tail(kids), keyed)

(***************************************************************************)
(* JSON.parse: a result is [ok, val, pos]; ok = FALSE is the SyntaxError.  *)
(***************************************************************************)
PFail == [ok |-> FALSE, val |-> JNull, pos |-> 0]
POk(v, p) == [ok |-> TRUE, val |-> v, pos |-> p]

RECURSIVE SkipWs(_, _)
SkipWs(s, i) == IF At(s, i) \in WS THEN SkipWs(s, i + 1) ELSE i

\* index of the closing quote of a string opened before i; 0 when the string
\* is not closed or holds a raw newline
RECURSIVE StringEnd(_, _)
StringEnd(s, i) ==
  CASE i > Len(s) -> 0
    [] s[i] = NL -> 0
    [] s[i] = Q -> i
    [] OTHER -> StringEnd(s, i + 1)

\* [1-9][0-9]* from i, with the value read so far
RECURSIVE NumberEnd(_, _, _)
NumberEnd(s, i, acc) ==
  IF IsDigit(At(s, i)) THEN NumberEnd(s, i + 1, acc * 10 + DigitVal(s[i]))
  ELSE POk(JNum(acc), i)

\* a member added to an object: a repeated key keeps its place and takes the
\* later value
PutMember(members, m) ==
  IF \E i \in 1..Len(members) : members[i].k = m.k
  THEN [i \in 1..Len(members) |-> IF members[i].k = m.k THEN m ELSE members[i]]
  ELSE Append(members, m)

RECURSIVE ParseValue(_, _), ParseElems(_, _, _), ParseMembers(_, _, _)
ParseValue(s, i0) ==
  LET i == SkipWs(s, i0)
      a == At(s, i)
  IN CASE a = "null" -> POk(JNull, i + 1)
       [] a = "true" -> POk(JTrue, i + 1)
       [] a = "false" -> POk(JFalse, i + 1)
       [] a = "0" -> POk(JNum(0), i + 1)
       [] IsDigit(a) /\ a # "0" -> NumberEnd(s, i, 0)
       [] a = Q -> LET e == StringEnd(s, i + 1)
                   IN IF e = 0 THEN PFail
                      ELSE POk(JStr(Slice(s, i + 1, e - 1)), e + 1)
       [] a = "[" -> IF At(s, SkipWs(s, i + 1)) = "]"
                     THEN POk(JArr(<<>>), SkipWs(s, i + 1) + 1)
                     ELSE ParseElems(s, i + 1, <<>>)
       [] a = "{" -> IF At(s, SkipWs(s, i + 1)) = "}"
                     THEN POk(JObj(<<>>), SkipWs(s, i + 1) + 1)
                     ELSE ParseMembers(s, i + 1, <<>>)
       [] OTHER -> PFail
ParseElems(s, i, acc) ==
  LET r == ParseValue(s, i)
      j == SkipWs(s, r.pos)
  IN IF ~r.ok THEN PFail
     ELSE CASE At(s, j) = "," -> ParseElems(s, j + 1, Append(acc, r.val))
            [] At(s, j) = "]" -> POk(JArr(Append(acc, r.val)), j + 1)
            [] OTHER -> PFail
ParseMembers(s, i0, acc) ==
  LET i == SkipWs(s, i0)
      e == IF At(s, i) = Q THEN StringEnd(s, i + 1) ELSE 0
      c == SkipWs(s, e + 1)
      r == ParseValue(s, c + 1)
      j == SkipWs(s, r.pos)
      m == Member(Slice(s, i + 1, e - 1), r.val)
  IN IF e = 0 \/ At(s, c) # ":" THEN PFail
     ELSE IF ~r.ok THEN PFail
     ELSE CASE At(s, j) = "," -> ParseMembers(s, j + 1, PutMember(acc, m))
            [] At(s, j) = "}" -> POk(JObj(PutMember(acc, m)), j + 1)
            [] OTHER -> PFail

\* JSON.parse(text): one value, blanks around it, nothing else
WholeText(s, r) == IF r.ok /\ SkipWs(s, r.pos) = Len(s) + 1 THEN r ELSE PFail
JsonParse(s) == WholeText(s, ParseValue(s, 1))

(***************************************************************************)
(* parseAgentResponseText                                                  *)
(***************************************************************************)
RECURSIVE LTrim(_), RTrim(_)
LTrim(s) == IF s # <<>> /\ Head(s) \in WS THEN LTrim(Tail(s)) ELSE s
RTrim(s) == IF s # <<>> /\ s[Len(s)] \in WS THEN RTrim(Slice(s, 1, Len(s) - 1)) ELSE s
\* String.prototype.trim
Trim(s) == RTrim(LTrim(s))

\* the /i flag of the regular expressions, on the words the model writes
LowerAtom(a) ==
  CASE a \in {"JSON", "Json"} -> "json"
    [] a \in {"Here", "HERE"} -> "here"
    [] OTHER -> a
\* atoms of more than one character; every other atom is one character
WordAtoms == {"json", "JSON", "Json", "here", "Here", "HERE", "is", "the",
              "true", "false", "null", "Sure", "thanks", FENCE}
\* what is left of a word whose first character a '.' of a pattern consumed
RESIDUE == "RESIDUE"

\* indexOf / lastIndexOf of one atom; 0 models -1
IndexOf(s, a) ==
  IF \E i \in 1..Len(s) : s[i] = a
  THEN CHOOSE i \in 1..Len(s) : s[i] = a /\ \A j \in 1..(i - 1) : s[j] # a
  ELSE 0
LastIndexOf(s, a) ==
  IF \E i \in 1..Len(s) : s[i] = a
  THEN CHOOSE i \in 1..Len(s) : s[i] = a /\ \A j \in (i + 1)..Len(s) : s[j] # a
  ELSE 0

\* (mutant) a fence pattern that never matches
FencesFromNone(s, i) == <<>>

\* the positions of the code fences of s, in order
RECURSIVE FencesFrom(_, _)
FencesFrom(s, i) ==
  IF i > Len(s) THEN <<>>
  ELSE (IF s[i] = FENCE THEN <<i>> ELSE <<>>) \o FencesFrom(s, i + 1)

\* group 1 of  ```(?:json)?\s*([\s\S]*?)\s*```  matched with its opening
\* fence at p and its closing fence at q: the tag and the blanks after the
\* opening fence are skipped, the lazy group stops before the blanks that
\* precede the closing fence
FenceCapture(s, p, q) ==
  LET a == IF LowerAtom(At(s, p + 1)) = "json" THEN p + 2 ELSE p + 1
      b == SkipWs(s, a)
  IN RTrim(Slice(s, b, q - 1))

\* tryParse: JSON.parse, a SyntaxError caught and turned into null
ValueOrNull(r) == IF r.ok THEN r.val ELSE JNull
tryParse(jsonStr) == ValueOrNull(JsonParse(jsonStr))

\* one '.?' of a pattern at position i of s, when the pattern goes on with the
\* word w: the position of w (one character skipped if that is what makes w
\* match), 0 when w does not follow
DotThen(s, i, w) ==
  CASE LowerAtom(At(s, i)) = w -> i
    [] At(s, i) \notin WordAtoms \cup {NL, EOF} /\ LowerAtom(At(s, i + 1)) = w -> i + 1
    [] OTHER -> 0

RECURSIVE SkipColonWs(_, _)
SkipColonWs(s, i) ==
  IF At(s, i) \in WS \cup {":"} THEN SkipColonWs(s, i + 1) ELSE i

\* .replace(/^[\s\n]*here.?is.?the.?json.?[:\s]*/i, "")
StripPreamble(s) ==
  LET h == SkipWs(s, 1)
      i1 == IF LowerAtom(At(s, h)) = "here" THEN DotThen(s, h + 1, "is") ELSE 0
      i2 == IF i1 # 0 THEN DotThen(s, i1 + 1, "the") ELSE 0
      i3 == IF i2 # 0 THEN DotThen(s, i2 + 1, "json") ELSE 0
      d == At(s, i3 + 1)
  IN IF i3 = 0 THEN s
     ELSE CASE d \in {NL, EOF} -> Slice(s, SkipColonWs(s, i3 + 1), Len(s))
            [] d \in WordAtoms -> <<RESIDUE>> \o Slice(s, i3 + 2, Len(s))
            [] OTHER -> Slice(s, SkipColonWs(s, i3 + 2), Len(s))

\* .replace(/^[\s\n]*json[:\s]*/i, "")
StripJsonWord(s) ==
  LET h == SkipWs(s, 1)
  IN IF LowerAtom(At(s, h)) = "json" THEN Slice(s, SkipColonWs(s, h + 1), Len(s))
     ELSE s

\* Method 2: the match of /```(?:json)?\s*([\s\S]*?)\s*```[\s\S]*$/i.  match()
\* returns the leftmost match, so the opening fence is the first fence of
\* the text that a later fence closes, and the lazy group ends at the next
\* fence: group 1 is the content of the FIRST fenced block.
lastFenceMatch(text) ==
  LET f == FencesFrom(text, 1)
  IN IF Len(f) >= 2 THEN FenceCapture(text, f[1], f[2]) ELSE <<>>

\* the group trimmed, the preambles stripped, trimmed again, parsed
ParseExtracted(extracted) == tryParse(Trim(StripJsonWord(StripPreamble(extracted))))
ParseMatch(match) == IF match # <<>> THEN ParseExtracted(Trim(match)) ELSE JNull
Method2(text) == ParseMatch(lastFenceMatch(text))

\* Method 3: matchAll pairs the fences left to right (1-2, 3-4, ...); the
\* blocks are tried from the last to the first
allFences(text) ==
  LET f == FencesFrom(text, 1)
  IN [i \in 1..(Len(f) \div 2) |-> FenceCapture(text, f[2 * i - 1], f[2 * i])]

ParseContent(content) == IF content # <<>> THEN tryParse(content) ELSE JNull
RECURSIVE Method3From(_, _)
Method3From(fences, i) ==
  IF i = 0 THEN JNull
  ELSE OrElse(ParseContent(Trim(fences[i])), Method3From(fences, i - 1))

FromLast(fences) == Method3From(fences, Len(fences))
Method3(text) == FromLast(allFences(text))

\* Method 4: from the first "[" to the last "]"
Between(originalText, first, last) ==
  IF first # 0 /\ last # 0 /\ last > first
  THEN Slice(originalText, first, last)
  ELSE <<>>
ParseCandidate(candidate) == IF candidate # <<>> THEN tryParse(candidate) ELSE JNull
Method4(originalText) ==
  ParseCandidate(Between(originalText, IndexOf(originalText, "["),
                         LastIndexOf(originalText, "]")))

\* .replace(/[\r\n]+/g, " ").replace(/\s+/g, " ").trim()
RECURSIVE CollapseWs(_)
CollapseWs(s) ==
  IF s = <<>> THEN <<>>
  ELSE IF Head(s) \in WS
       THEN <<SP>> \o CollapseWs(LTrim(s))
       ELSE <<Head(s)>> \o CollapseWs(Tail(s))

\* Method 5: from the first "{" to the last "}", raw and then cleaned
RawThenCleaned(candidate) ==
  IF candidate # <<>>
  THEN OrElse(tryParse(candidate), tryParse(Trim(CollapseWs(candidate))))
  ELSE JNull
Method5(originalText) ==
  RawThenCleaned(Between(originalText, IndexOf(originalText, "{"),
                         LastIndexOf(originalText, "}")))

\* originalText = text = rawText.trim(), and the five methods on it
ParseTrimmed(text) ==
  OrElse(tryParse(text),
  OrElse(Method2(text),
  OrElse(Method3(text),
  OrElse(Method4(text),
  OrElse(Method5(text), JNull)))))

\* The five methods in order; "if (result) return result" moves on to the next
\* method whenever the parsed value is falsy.  The final "return null" is JNull.
parseAgentResponseText(rawText) == ParseTrimmed(Trim(rawText))

(***************************************************************************)
(* State                                                                   *)
(***************************************************************************)
VARIABLES
  \* parseAgentResponseText applied to one text
  rawText,     \* the text handed to the parser
  parseCase,   \* how rawText was put together: [kind, v, v2, pre, post, tag, sep]
  parsed,      \* the value returned
  parsePc,     \* "idle" | "ready" | "done"
  \* buildStoryStructure
  targetSlides,    \* the request's targetSlides
  bsPc,            \* "idle" | "first" | "while" | "for" | "guard" | "return" | "done"
  bsI,             \* the loop index i (0-based, as in the source)
  remainingSlides,
  bsResult,        \* result[i].slideCount
  storyStructure,  \* the value returned
  \* generateSlideOutline
  goPc,            \* "idle" | "story" | "done"
  outlineReply,    \* what the LLM answers to the outline request: [ok, text]
  goResult,        \* [threw, outline]: the outcome of generateSlideOutline
  calls,           \* history: the calls made to the data store, the LLM and the
                   \* image function, in order
  \* serve: one run
  pc,              \* "idle" | "start" | "read" | "synthesis" | "outline" | "slides"
                   \* | "images" | "saving" | "closed"
  geminiKey,       \* whether GEMINI_API_KEY is configured
  store,           \* the project data store: [items, failing, secondaryFails, persist]
  readIdx,         \* the read to run next (1..9)
  toolResults,     \* success of each read run so far
  collectedData,   \* per read, the number of rows kept (-1: never set)
  blackboard,
  stream,          \* the events enqueued on the response stream
  completionScore,
  slideOutline,
  slideIdx,        \* the loop index i of the slide loop (0-based)
  llmReply,        \* the reply of the LLM to the latest slide request
  slidesJson,
  nextId,          \* generateId(): the next fresh id
  slidesNeedingImages, \* positions (in slidesJson) of the slides to enrich
  imgIdx,          \* the loop index of the image loop
  imagesGenerated,
  \* two runs of serve executing at once
  runs,            \* per run: its request, its position and its local state
  presentations,   \* the presentation rows of the data store, by presentation id
  \* audit-extract-concepts: one request
  extract          \* [pc, dataset, attempt, lastError, concepts, fetches (the
                   \*  outcome of each request to the model), waits,
                   \*  logs, response]

parseVars == <<rawText, parseCase, parsed, parsePc>>
storyVars == <<targetSlides, bsPc, bsI, remainingSlides, bsResult, storyStructure>>
outlineVars == <<goPc, outlineReply, goResult>>
collectVars == <<geminiKey, store, readIdx, toolResults, collectedData, completionScore>>
slideVars == <<slideOutline, slideIdx, llmReply, slidesJson, nextId, slidesNeedingImages,
               imgIdx, imagesGenerated>>
runVars == <<pc, collectVars, blackboard, stream, slideVars>>
raceVars == <<runs, presentations>>
vars == <<parseVars, storyVars, outlineVars, calls, runVars, raceVars, extract>>

(***************************************************************************)
(* Inputs of the parser                                                    *)
(***************************************************************************)
MaxNum == 1
MaxKids == 2
MaxProse == 1

SeqsUpTo(S, n) == UNION {[1..k -> S] : k \in 0..n}
Strs == {<<>>, <<"a">>}
KeyAtoms == {"a", "b"}
Prims == {JNull, JTrue, JFalse} \cup {JNum(n) : n \in 0..MaxNum}
           \cup {JStr(str) : str \in Strs}
Arrays == {JArr(e) : e \in SeqsUpTo(Prims, MaxKids)}
SmallArrays == {JArr(e) : e \in SeqsUpTo({JNum(1)}, 1)}
ObjVals == Prims \cup SmallArrays
Objects ==
  {JObj([i \in 1..Len(ks) |-> Member(<<ks[i]>>, vs[i])]) :
     <<ks, vs>> \in {kv \in SeqsUpTo(KeyAtoms, MaxKids) \X SeqsUpTo(ObjVals, MaxKids) :
                       /\ Len(kv[1]) = Len(kv[2])
                       /\ \A i, j \in 1..Len(kv[1]) : i # j => kv[1][i] # kv[1][j]}}
JsonValues == Prims \cup Arrays \cup Objects
\* the values wrapped in fences and prose: objects and arrays of at most one
\* member
WrapObjects == {v \in Objects : Len(v.kids) <= 1}
WrapValues == WrapObjects \cup {v \in Arrays : Len(v.kids) <= 1}
ProseAtoms == {"Sure", Q, "["}
Prose == SeqsUpTo(ProseAtoms, MaxProse)
\* prose none of whose sub-texts is JSON
NonJsonProse == SeqsUpTo({"Sure", SP, "thanks"}, MaxProse) \ {<<>>}
Tags == {<<>>, <<"json">>}

\* a fenced block: the blank after the opening fence and before the closing one
\* is a newline or a space
Blanks == {NL, SP}
Fenced(tag, sep, v) == <<FENCE>> \o tag \o <<sep>> \o Stringify(v) \o <<sep, FENCE>>

ParseCase(kind, v, v2, pre, post, tag, sep) ==
  [kind |-> kind, v |-> v, v2 |-> v2, pre |-> pre, post |-> post, tag |-> tag,
   sep |-> sep]
NoCase == ParseCase("none", JNull, JNull, <<>>, <<>>, <<>>, NL)

TextOf(c) ==
  CASE c.kind = "stringify" -> Stringify(c.v)
    [] c.kind = "fenced" -> c.pre \o Fenced(c.tag, c.sep, c.v) \o c.post
    [] c.kind = "prose" -> c.pre \o Stringify(c.v) \o c.post
    [] c.kind = "fences" -> c.pre \o Fenced(c.tag, c.sep, c.v) \o <<NL>> \o Fenced(c.tag, c.sep, c.v2)
    [] OTHER -> <<>>

InitParseCase ==
  \/ \E v \in JsonValues : parseCase = ParseCase("stringify", v, JNull, <<>>, <<>>, <<>>, NL)
  \/ \E v \in WrapValues, pre \in Prose, post \in Prose, tag \in Tags, sep \in Blanks :
       parseCase = ParseCase("fenced", v, JNull, pre, post, tag, sep)
  \/ \E v \in WrapObjects, pre \in NonJsonProse, post \in NonJsonProse :
       parseCase = ParseCase("prose", v, JNull, pre, post, <<>>, NL)
  \/ \E v \in WrapValues, v2 \in WrapValues, pre \in NonJsonProse, tag \in Tags,
        sep \in Blanks :
       parseCase = ParseCase("fences", v, v2, pre, <<>>, tag, sep)

(***************************************************************************)
(* The parts of the state a specification does not use                     *)
(***************************************************************************)
NoResponse == [sent |-> FALSE, success |-> FALSE, error |-> "", concepts |-> JNull]
NoExtract ==
  [pc |-> "idle", dataset |-> "", attempt |-> 0, lastError |-> "", concepts |-> JNull,
   fetches |-> <<>>, waits |-> <<>>, logs |-> <<>>, response |-> NoResponse]
IdleRace ==
  /\ runs = <<>>
  /\ presentations = <<>>
  /\ extract = NoExtract
IdleParse ==
  /\ parseCase = NoCase
  /\ rawText = <<>>
  /\ parsed = JNull
  /\ parsePc = "idle"
IdleStory ==
  /\ bsPc = "idle"
  /\ bsI = 0
  /\ remainingSlides = 0
  /\ bsResult = <<>>
  /\ storyStructure = <<>>
NoReply == [ok |-> FALSE, text |-> <<>>]
NoOutcome == [threw |-> FALSE, outline |-> <<>>]
IdleOutline ==
  /\ goPc = "idle"
  /\ outlineReply = NoReply
  /\ goResult = NoOutcome

NoStore == [items |-> 0, failing |-> {}, secondaryFails |-> FALSE, persist |-> "ok"]
IdleRun ==
  /\ pc = "idle"
  /\ geminiKey = FALSE
  /\ store = NoStore
  /\ readIdx = 0
  /\ toolResults = <<>>
  /\ collectedData = <<>>
  /\ completionScore = 0
  /\ blackboard = <<>>
  /\ stream = <<>>
  /\ slideOutline = <<>>
  /\ slideIdx = 0
  /\ llmReply = NoReply
  /\ slidesJson = <<>>
  /\ nextId = 0
  /\ slidesNeedingImages = <<>>
  /\ imgIdx = 0
  /\ imagesGenerated = 0

InitParse ==
  /\ IdleRace
  /\ InitParseCase
  /\ rawText = TextOf(parseCase)
  /\ parsed = JNull
  /\ parsePc = "ready"
  /\ IdleStory /\ targetSlides = 0
  /\ IdleOutline
  /\ calls = <<>>
  /\ IdleRun

ParseText ==
  /\ parsePc = "ready"
  /\ parsed' = parseAgentResponseText(rawText)
  /\ parsePc' = "done"
  /\ UNCHANGED <<extract, raceVars, rawText, parseCase, storyVars, outlineVars, calls, runVars>>

NextParse == ParseText
SpecParse == InitParse /\ [][NextParse]_vars

(***************************************************************************)
(* Claims about parseAgentResponseText (under SpecParse)                   *)
(***************************************************************************)
ParsedCase(kind) == parsePc = "done" /\ parseCase.kind = kind

\* C6: round trip: for every JSON value V (0, false and "" included),
\* parseAgentResponseText(JSON.stringify(V)) is deep-equal to V.
C6_RoundTrip == ParsedCase("stringify") => parsed = parseCase.v

\* C7 as stated: prose, one fenced block holding a JSON object or array, prose:
\* the parser returns the JSON inside the fence.
C7_FencedRecovered == ParsedCase("fenced") => parsed = parseCase.v

\* C7 amended: the same, when the text as a whole is not itself valid JSON
\* (the direct parse of method 1 comes first and wins).
C7_FencedRecoveredUnlessWholeJson ==
  (ParsedCase("fenced") /\ ~JsonParse(Trim(rawText)).ok) => parsed = parseCase.v

C7_Witness ==
  /\ ParsedCase("fenced")
  /\ parseCase.pre # <<>> /\ parseCase.post # <<>> /\ parseCase.tag # <<>>
  /\ IsObject(parseCase.v) /\ parseCase.v.kids # <<>>
  /\ ~JsonParse(Trim(rawText)).ok
  /\ parsed = parseCase.v

\* C9: an unfenced JSON object between non-JSON prose is returned whole, also
\* when it holds an array: never a sub-value in its place.
C9_WholeObject == ParsedCase("prose") => parsed = parseCase.v

\* C10: of two fenced blocks that each hold valid JSON, the content of the
\* last one is returned.
C10_LastFenceWins == ParsedCase("fences") => parsed = parseCase.v2

(***************************************************************************)
(* buildStoryStructure                                                     *)
(***************************************************************************)
\* (mutant) the minimum taken for its first argument
MinFirst(a, b) == a
\* (mutant) the minimum taken for its second argument
MinSecond(a, b) == b
Min(a, b) == IF a < b THEN a ELSE b

\* the eight narrative sections, in order
sections == <<
  [section |-> "Opening", minSlides |-> 2, maxSlides |-> 3],
  [section |-> "Context & Problem", minSlides |-> 1, maxSlides |-> 3],
  [section |-> "Solution Overview", minSlides |-> 1, maxSlides |-> 2],
  [section |-> "Requirements Deep Dive", minSlides |-> 2, maxSlides |-> 4],
  [section |-> "Architecture", minSlides |-> 1, maxSlides |-> 3],
  [section |-> "Implementation Status", minSlides |-> 1, maxSlides |-> 2],
  [section |-> "Risks & Challenges", minSlides |-> 1, maxSlides |-> 2],
  [section |-> "Next Steps", minSlides |-> 1, maxSlides |-> 2] >>

layoutSuggestions == <<
  <<"title-cover", "quote">>,
  <<"title-content", "image-right", "bullets">>,
  <<"image-left", "title-content", "stats-grid">>,
  <<"bullets", "two-column", "icon-grid", "comparison">>,
  <<"architecture", "image-left", "title-content">>,
  <<"stats-grid", "timeline", "bullets">>,
  <<"two-column", "bullets", "comparison">>,
  <<"timeline", "bullets", "quote">> >>

RECURSIVE SumSeq(_)
SumSeq(q) == IF q = <<>> THEN 0 ELSE Head(q) + SumSeq(Tail(q))
SumMax == SumSeq([i \in 1..Len(sections) |-> sections[i].maxSlides])

\* the state on entry: let remainingSlides = targetSlides, result = []
EnterStory ==
  /\ bsPc' = "first"
  /\ bsI' = 0
  /\ remainingSlides' = targetSlides
  /\ bsResult' = <<>>
  /\ storyStructure' = <<>>

\* First pass, one section: count = Math.min(sec.minSlides, remainingSlides)
BsFirstPass ==
  /\ bsPc = "first"
  /\ LET count == Min(sections[bsI + 1].minSlides, remainingSlides)
     IN /\ bsResult' = Append(bsResult, count)
        /\ remainingSlides' = remainingSlides - count
  /\ bsI' = bsI + 1
  /\ bsPc' = IF bsI + 1 = Len(sections) THEN "while" ELSE "first"
  /\ UNCHANGED <<extract, raceVars, targetSlides, storyStructure, parseVars, outlineVars, calls, runVars>>

\* while (remainingSlides > 0)
BsWhile ==
  /\ bsPc = "while"
  /\ bsPc' = IF remainingSlides > 0 THEN "for" ELSE "return"
  /\ bsI' = 0
  /\ UNCHANGED <<extract, raceVars, targetSlides, remainingSlides, bsResult, storyStructure, parseVars,
                 outlineVars, calls, runVars>>

\* for (let i = 0; i < result.length && remainingSlides > 0; i++): one turn,
\* or the exit of the for loop
BsFor ==
  /\ bsPc = "for"
  /\ IF bsI < Len(bsResult) /\ remainingSlides > 0
     THEN /\ IF bsResult[bsI + 1] < sections[bsI + 1].maxSlides
             THEN /\ bsResult' = [bsResult EXCEPT ![bsI + 1] = @ + 1]
                  /\ remainingSlides' = remainingSlides - 1
             ELSE UNCHANGED <<bsResult, remainingSlides>>
          /\ bsI' = bsI + 1
          /\ bsPc' = "for"
     ELSE /\ bsPc' = "guard"
          /\ UNCHANGED <<bsResult, remainingSlides, bsI>>
  /\ UNCHANGED <<extract, raceVars, targetSlides, storyStructure, parseVars, outlineVars, calls, runVars>>

\* "Prevent infinite loop": if (remainingSlides === targetSlides) break
BsGuard ==
  /\ bsPc = "guard"
  /\ bsPc' = IF remainingSlides = targetSlides THEN "return" ELSE "while"
  /\ UNCHANGED <<extract, raceVars, targetSlides, bsI, remainingSlides, bsResult, storyStructure,
                 parseVars, outlineVars, calls, runVars>>

\* (mutant) the sections without allocation are kept
RECURSIVE KeepAll(_, _)
KeepAll(counts, i) ==
  IF i > Len(counts) THEN <<>>
  ELSE <<[section |-> sections[i].section, slideCount |-> counts[i],
          layouts |-> layoutSuggestions[i]]>> \o KeepAll(counts, i + 1)

RECURSIVE KeepAllocated(_, _)
KeepAllocated(counts, i) ==
  IF i > Len(counts) THEN <<>>
  ELSE (IF counts[i] > 0
        THEN <<[section |-> sections[i].section, slideCount |-> counts[i],
                layouts |-> layoutSuggestions[i]]>>
        ELSE <<>>) \o KeepAllocated(counts, i + 1)

\* the layouts are assigned; return result.filter(s => s.slideCount > 0)
BsReturn ==
  /\ bsPc = "return"
  /\ storyStructure' = KeepAllocated(bsResult, 1)
  /\ bsPc' = "done"
  /\ UNCHANGED <<extract, raceVars, targetSlides, bsI, remainingSlides, bsResult, parseVars, outlineVars,
                 calls, runVars>>

MaxStoryTarget == 22

InitStory ==
  /\ IdleRace
  /\ targetSlides \in 0..MaxStoryTarget
  /\ bsPc = "first"
  /\ bsI = 0
  /\ remainingSlides = targetSlides
  /\ bsResult = <<>>
  /\ storyStructure = <<>>
  /\ IdleParse
  /\ IdleOutline
  /\ calls = <<>>
  /\ IdleRun

NextStory == BsFirstPass \/ BsWhile \/ BsFor \/ BsGuard \/ BsReturn
SpecStory == InitStory /\ [][NextStory]_vars
\* the function runs to its end without being preempted for ever
SpecStoryFair == SpecStory /\ WF_vars(NextStory)

(***************************************************************************)
(* Claims about buildStoryStructure                                        *)
(***************************************************************************)
\* C2: buildStoryStructure(N, mode) terminates for every N >= 0, also for N
\* above the sum of the maxSlides (21): a sweep that grants nothing ends the
\* redistribution loop.
C2_Terminates == <>(bsPc = "done")

BsReturned == bsPc = "done"
SlideCounts == [i \in 1..Len(storyStructure) |-> storyStructure[i].slideCount]
SumMin == SumSeq([i \in 1..Len(sections) |-> sections[i].minSlides])
\* the position of a returned section in the fixed list
SectionIndex(name) == CHOOSE i \in 1..Len(sections) : sections[i].section = name

\* C11: whenever buildStoryStructure returns, the returned slideCount values
\* add up to min(N, 21), 21 being the sum of the maxSlides.
C11_SumIsMin == BsReturned => SumSeq(SlideCounts) = Min(targetSlides, SumMax)

C11_Witness ==
  /\ BsReturned
  /\ targetSlides > SumMin
  /\ SumSeq(SlideCounts) = targetSlides
  /\ Len(storyStructure) = Len(sections)

\* C12: in every result each returned section has 1 <= slideCount <= its
\* maxSlides, the sections keep the fixed order, and the total is at most N.
C12_WithinBounds ==
  BsReturned =>
    /\ \A i \in 1..Len(storyStructure) :
         /\ \E k \in 1..Len(sections) : sections[k].section = storyStructure[i].section
         /\ storyStructure[i].slideCount >= 1
         /\ storyStructure[i].slideCount
              <= sections[SectionIndex(storyStructure[i].section)].maxSlides
    /\ \A i \in 1..Len(storyStructure) : \A j \in (i + 1)..Len(storyStructure) :
         SectionIndex(storyStructure[i].section) < SectionIndex(storyStructure[j].section)
    /\ SumSeq(SlideCounts) <= targetSlides

C12_Witness ==
  /\ BsReturned
  /\ Len(storyStructure) = Len(sections)
  /\ \E i \in 1..Len(storyStructure) :
       storyStructure[i].slideCount = sections[SectionIndex(storyStructure[i].section)].maxSlides
  /\ \E i \in 1..Len(storyStructure) :
       storyStructure[i].slideCount < sections[SectionIndex(storyStructure[i].section)].maxSlides

\* C13: buildStoryStructure(1) returns the section "Opening" alone with
\* slideCount 1; for N below the sum of the minimums (10) the returned
\* sections are a prefix of the fixed list, each with exactly its minSlides
\* but the last, which has at least 1 and at most its minSlides.
C13_MinimumsInOrder ==
  /\ (BsReturned /\ targetSlides = 1)
       => (Len(storyStructure) = 1 /\ storyStructure[1].section = "Opening"
           /\ storyStructure[1].slideCount = 1)
  /\ (BsReturned /\ targetSlides < SumMin)
       => /\ Len(storyStructure) <= Len(sections)
          /\ \A i \in 1..Len(storyStructure) :
               /\ storyStructure[i].section = sections[i].section
               /\ storyStructure[i].slideCount >= 1
               /\ storyStructure[i].slideCount <= sections[i].minSlides
               /\ i < Len(storyStructure)
                    => storyStructure[i].slideCount = sections[i].minSlides

C13_Witness ==
  /\ BsReturned
  /\ targetSlides \in 2..(SumMin - 1)
  /\ Len(storyStructure) >= 2
  /\ storyStructure[Len(storyStructure)].slideCount
       < sections[Len(storyStructure)].minSlides

(***************************************************************************)
(* generateSlideOutline                                                    *)
(***************************************************************************)
Str(a) == JStr(<<a>>)
StrList(atoms) == JArr([i \in 1..Len(atoms) |-> Str(atoms[i])])

paddingLayouts == <<"bullets", "title-content", "image-right", "stats-grid">>
paddingTopics == <<
  [title |-> "Additional Insights", purpose |-> "Further observations from the project data",
   keyContent |-> <<"Project insights", "Key observations">>],
  [title |-> "Technical Details", purpose |-> "More technical context",
   keyContent |-> <<"Implementation details", "Technical considerations">>],
  [title |-> "Stakeholder Benefits", purpose |-> "Value proposition for stakeholders",
   keyContent |-> <<"Business value", "User benefits">>],
  [title |-> "Quality Assurance", purpose |-> "Testing and validation approach",
   keyContent |-> <<"Testing strategy", "Quality metrics">>],
  [title |-> "Team & Resources", purpose |-> "Team composition and resources",
   keyContent |-> <<"Team structure", "Resource allocation">>],
  [title |-> "Future Vision", purpose |-> "Long-term vision and goals",
   keyContent |-> <<"Long-term goals", "Future enhancements">>] >>

\* `${topic.title} (${idx})`
RenamedTitle(title, idx) == JStr(<<title, SP, "(">> \o Digits(idx) \o <<")">>)

\* the item pushed for position idx (0-based), given the titles seen so far
PaddingItem(idx, existingTitles) ==
  LET topic == paddingTopics[(idx % Len(paddingTopics)) + 1]
      title == IF Str(topic.title) \in existingTitles
               THEN RenamedTitle(topic.title, idx)
               ELSE Str(topic.title)
  IN JObj(<<Member(<<"order">>, JNum(idx + 1)),
            Member(<<"layoutId">>, Str(paddingLayouts[(idx % Len(paddingLayouts)) + 1])),
            Member(<<"title">>, title),
            Member(<<"purpose">>, Str(topic.purpose)),
            Member(<<"keyContent">>, StrList(topic.keyContent))>>)

\* while (parsed.length < targetSlides) { ... parsed.push(...) }
RECURSIVE PadOutline(_, _, _)
PadOutline(items, existingTitles, n) ==
  IF Len(items) >= n THEN items
  ELSE LET item == PaddingItem(Len(items), existingTitles)
       IN PadOutline(Append(items, item), existingTitles \cup {Get(item, <<"title">>)}, n)

\* (mutant) the item is replaced by its order alone
OrderOnly(item, i) == JObj(<<Member(<<"order">>, JNum(i))>>)

\* ({ ...s, order: i + 1 }): the members of an object, order set; a value that
\* is no object spreads to nothing (the index keys of a spread array or
\* string are not modelled)
SpreadWithOrder(item, i) ==
  JObj(PutMember(IF IsObject(item) THEN item.kids ELSE <<>>,
                 Member(<<"order">>, JNum(i))))

\* parsed.map((s, i) => ({ ...s, order: i + 1 }))
EnsureOrder(items) == [i \in 1..Len(items) |-> SpreadWithOrder(items[i], i)]

\* a call to the outside: to the data store (rpc), to the LLM, to the image
\* function; has: the optional parameters an update passes
Call(kind, name, ok, status, slides, bb, has) ==
  [kind |-> kind, name |-> name, ok |-> ok, status |-> status, slides |-> slides,
   blackboard |-> bb, has |-> has, prev |-> <<>>, next |-> <<>>]
LlmCall(name, ok) == Call("llm", name, ok, "", <<>>, <<>>, {})

Threw == [threw |-> TRUE, outline |-> <<>>]
Returned(outline) == [threw |-> FALSE, outline |-> outline]

\* The count enforcement on the parsed array.  parsed.map(s => s.title) of
\* the padding branch throws a TypeError on a null element.
EnforceCount(items, n) ==
  IF Len(items) < n
  THEN IF \E i \in 1..Len(items) : items[i].t = "null"
       THEN Threw
       ELSE Returned(EnsureOrder(
              PadOutline(items, {Get(items[i], <<"title">>) : i \in 1..Len(items)}, n)))
  ELSE IF Len(items) > n
  THEN Returned(EnsureOrder(SubSeq(items, 1, n)))
  ELSE Returned(EnsureOrder(items))

\* (mutant) a value that is no array is taken for an empty outline
OutlineFromParsedLenient(p, n) == EnforceCount(IF IsArray(p) THEN p.kids ELSE <<>>, n)

\* "Invalid outline format" is thrown for a value that is no array
OutlineFromParsed(p, n) == IF ~IsArray(p) THEN Threw ELSE EnforceCount(p.kids, n)

\* generateSlideOutline from the reply of the LLM on: a response that is not
\* ok throws, a text that does not parse to an array throws
OutlineFromReply(reply, n) ==
  IF ~reply.ok THEN Threw
  ELSE OutlineFromParsed(parseAgentResponseText(reply.text), n)

\* buildStoryStructure has returned: the prompt is built, the LLM is called,
\* its reply parsed and the slide count enforced
GoFetch ==
  /\ goPc = "story"
  /\ bsPc = "done"
  /\ goResult' = OutlineFromReply(outlineReply, targetSlides)
  /\ goPc' = "done"
  /\ calls' = Append(calls, LlmCall("outline", outlineReply.ok))
  /\ UNCHANGED <<extract, raceVars, outlineReply, storyVars, parseVars, runVars>>

(***************************************************************************)
(* Replies of the LLM to the outline request                               *)
(***************************************************************************)
MaxReply == 2

OutlineItem(title, layoutId, extra) ==
  JObj(<<Member(<<"title">>, Str(title)), Member(<<"layoutId">>, Str(layoutId)),
         Member(<<"purpose">>, Str("Purpose"))>> \o extra)
KeyContent == <<Member(<<"keyContent">>, StrList(<<"Point">>))>>
\* an item that bears the title padding gives to a renamed topic
RenamedItem(topic, idx) ==
  JObj(<<Member(<<"title">>, RenamedTitle(topic, idx)),
         Member(<<"layoutId">>, Str("bullets")),
         Member(<<"purpose">>, Str("Purpose"))>> \o KeyContent)
\* a well-formed item whose order is not its position, one whose title is a
\* padding topic's, one whose title is a renamed padding topic's, one without
\* keyContent, and null
OutlineItems ==
  { OutlineItem("Intro", "title-cover", KeyContent \o <<Member(<<"order">>, JNum(9))>>),
    RenamedItem("Technical Details", 7),
    OutlineItem("Additional Insights", "image-left",
                KeyContent \o <<Member(<<"imagePrompt">>, Str("Sketch"))>>),
    OutlineItem("Bare", "bullets", <<>>),
    JNull }
OutlineArrays == {JArr(items) : items \in SeqsUpTo(OutlineItems, MaxReply)}
OutlineTexts ==
  {Stringify(a) : a \in OutlineArrays}
  \cup {<<"Sure", NL>> \o Fenced(<<"json">>, NL, JArr(<<>>))}
  \cup {<<"Sure">>, Stringify(JObj(<<Member(<<"slides">>, JArr(<<>>))>>))}
OutlineReplies == {NoReply} \cup {[ok |-> TRUE, text |-> t] : t \in OutlineTexts}

InitOutline ==
  /\ IdleRace
  /\ targetSlides \in 1..MaxStoryTarget
  /\ outlineReply \in OutlineReplies
  /\ goPc = "story"
  /\ goResult = NoOutcome
  /\ bsPc = "first"
  /\ bsI = 0
  /\ remainingSlides = targetSlides
  /\ bsResult = <<>>
  /\ storyStructure = <<>>
  /\ IdleParse
  /\ calls = <<>>
  /\ IdleRun

NextOutline == BsFirstPass \/ BsWhile \/ BsFor \/ BsGuard \/ BsReturn \/ GoFetch
SpecOutline == InitOutline /\ [][NextOutline]_vars

(***************************************************************************)
(* Claims about generateSlideOutline (under SpecOutline)                   *)
(***************************************************************************)
ReplyIsArray == outlineReply.ok /\ IsArray(parseAgentResponseText(outlineReply.text))
OrdersContiguous(outline) ==
  \A i \in 1..Len(outline) : Get(outline[i], <<"order">>) = JNum(i)

\* C1: for every N >= 1 and every reply that parses to a JSON array, of any
\* length, generateSlideOutline returns exactly N items with order 1..N.
C1_ExactlyN ==
  (goPc = "done" /\ ReplyIsArray) =>
     /\ ~goResult.threw
     /\ Len(goResult.outline) = targetSlides
     /\ OrdersContiguous(goResult.outline)

\* the items of the array the reply parses to
ModelItems == parseAgentResponseText(outlineReply.text).kids
OutlineReturned == goPc = "done" /\ ReplyIsArray /\ ~goResult.threw
TitleOf(item) == Get(item, <<"title">>)

\* C28: when the model returns fewer than N items, no item added by the
\* padding has the title of another item of the returned outline, be it the
\* model's or another padded one.
C28_PaddedTitlesUnique ==
  (OutlineReturned /\ Len(ModelItems) < targetSlides) =>
    \A i \in (Len(ModelItems) + 1)..Len(goResult.outline) :
      \A j \in 1..Len(goResult.outline) :
        i # j => TitleOf(goResult.outline[i]) # TitleOf(goResult.outline[j])

KeysOf(item) == IF IsObject(item) THEN {item.kids[m].k : m \in 1..Len(item.kids)} ELSE {}
\* the item is the model's but for its order, which is its position
SameButOrder(item, model, position) ==
  /\ Get(item, <<"order">>) = JNum(position)
  /\ KeysOf(item) = KeysOf(model) \cup {<<"order">>}
  /\ \A k \in KeysOf(model) \ {<<"order">>} : Get(item, k) = Get(model, k)

\* C29: the count enforcement keeps the model's items: the first min(L, N)
\* items of the returned outline are the first min(L, N) items of the reply,
\* in the same order, every field read as in the reply but order, which is
\* the position of the item, whatever order the model gave.
C29_ModelItemsKept ==
  OutlineReturned =>
    /\ Len(goResult.outline) >= Min(Len(ModelItems), targetSlides)
    /\ \A i \in 1..Min(Len(ModelItems), targetSlides) :
         SameButOrder(goResult.outline[i], ModelItems[i], i)

C29_Witness ==
  /\ OutlineReturned
  /\ Len(ModelItems) = 2
  /\ targetSlides = 3
  /\ Get(ModelItems[1], <<"order">>) = JNum(9)
  /\ TitleOf(ModelItems[2]) = Str("Additional Insights")


(***************************************************************************)
(* serve: the records of one generation run                                *)
(***************************************************************************)
\* a blackboard entry, by its source and its category
Entry(source, category) == [source |-> source, category |-> category]

\* a GeneratedSlide; content is the list of its regions
Slide(id, order, layoutId, title, subtitle, content, notes, imagePrompt, imageUrl) ==
  [id |-> id, order |-> order, layoutId |-> layoutId, title |-> title,
   subtitle |-> subtitle, content |-> content, notes |-> notes,
   imagePrompt |-> imagePrompt, imageUrl |-> imageUrl]
NoSlide == Slide(JNull, JNull, JNull, JNull, JNull, <<>>, JNull, JNull, JNull)

\* sseMessage(event, data); entry and slide hold the entry or the slide of
\* the event, if it carries one
Event(event, phase, entry, slide, current, total) ==
  [event |-> event, phase |-> phase, entry |-> entry, slide |-> slide,
   current |-> current, total |-> total]
StatusEvent(phase) == Event("status", phase, <<>>, <<>>, 0, 0)
ProgressEvent(phase, current, total) == Event("status", phase, <<>>, <<>>, current, total)
BlackboardEvent(entry) == Event("blackboard", "", <<entry>>, <<>>, 0, 0)
SlideEvent(slide) == Event("slide", "", <<>>, <<slide>>, 0, 0)
\* (mutant) the two counts of the complete event exchanged
CompleteEventExchanged(slideCount, blackboardCount) ==
  Event("complete", "", <<>>, <<>>, blackboardCount, slideCount)

\* complete: current is slideCount, total is blackboardCount
CompleteEvent(slideCount, blackboardCount) ==
  Event("complete", "", <<>>, <<>>, slideCount, blackboardCount)
ErrorEvent == Event("error", "", <<>>, <<>>, 0, 0)

\* (mutant) the update passes an empty blackboard
UpdateWithoutBlackboard(status, slides, bb, has) ==
  Call("rpc", "update_presentation_with_token", TRUE, status, slides, <<>>, has)

\* supabase.rpc("update_presentation_with_token", ...) with the parameters in has
UpdatePresentation(status, slides, bb, has) ==
  Call("rpc", "update_presentation_with_token", TRUE, status, slides, bb, has)
AppendBlackboard(entry, ok) ==
  Call("rpc", "append_presentation_blackboard_with_token", ok, "", <<>>, <<entry>>,
       {"p_entry"})

\* the outcome of the append rpc of the n-th entry against a store that
\* persists every entry, none, or every second one
PersistOk(st, n) == st.persist = "ok" \/ (st.persist = "alternate" /\ n % 2 = 0)
Fetch(name, ok) == Call("rpc", name, ok, "", <<>>, <<>>, {})

\* what a step has done to the blackboard, the stream and the calls
Effects(bb, st, cl) == [blackboard |-> bb, stream |-> st, calls |-> cl]

\* (mutant) the entry is unshifted to the front of the in-memory blackboard
addToBlackboardFront(fx, entry) ==
  Effects(<<entry>> \o fx.blackboard,
          Append(fx.stream, BlackboardEvent(entry)),
          Append(fx.calls, AppendBlackboard(entry, PersistOk(store, Len(fx.blackboard) + 1))))

\* (mutant) the in-memory blackboard keeps its latest entry only
addToBlackboardLatest(fx, entry) ==
  Effects(<<entry>>,
          Append(fx.stream, BlackboardEvent(entry)),
          Append(fx.calls, AppendBlackboard(entry, PersistOk(store, Len(fx.blackboard) + 1))))

\* addToBlackboard: push, enqueue the "blackboard" event, await the append;
\* the result of the rpc is not looked at
addToBlackboard(fx, entry) ==
  Effects(Append(fx.blackboard, entry),
          Append(fx.stream, BlackboardEvent(entry)),
          Append(fx.calls, AppendBlackboard(entry, PersistOk(store, Len(fx.blackboard) + 1))))

RECURSIVE AddEntries(_, _, _)
AddEntries(fx, source, categories) ==
  IF categories = <<>> THEN fx
  ELSE AddEntries(addToBlackboard(fx, Entry(source, Head(categories))), source,
                  Tail(categories))

Repeat(x, n) == [i \in 1..n |-> x]

(***************************************************************************)
(* serve: the data collection tools                                        *)
(***************************************************************************)
\* (mutant) read_canvas is executed before read_specifications
toolsCanvasFirst == <<
  [tool |-> "read_settings", phase |-> "read_settings"],
  [tool |-> "read_requirements", phase |-> "read_requirements"],
  [tool |-> "read_artifacts", phase |-> "read_artifacts"],
  [tool |-> "read_canvas", phase |-> "read_canvas"],
  [tool |-> "read_specifications", phase |-> "read_specifications"],
  [tool |-> "read_repo_structure", phase |-> "read_repo"],
  [tool |-> "read_databases", phase |-> "read_databases"],
  [tool |-> "read_connections", phase |-> "read_connections"],
  [tool |-> "read_deployments", phase |-> "read_deployments"] >>

\* the nine reads in their order of execution
tools == <<
  [tool |-> "read_settings", phase |-> "read_settings"],
  [tool |-> "read_requirements", phase |-> "read_requirements"],
  [tool |-> "read_artifacts", phase |-> "read_artifacts"],
  [tool |-> "read_specifications", phase |-> "read_specifications"],
  [tool |-> "read_canvas", phase |-> "read_canvas"],
  [tool |-> "read_repo_structure", phase |-> "read_repo"],
  [tool |-> "read_databases", phase |-> "read_databases"],
  [tool |-> "read_connections", phase |-> "read_connections"],
  [tool |-> "read_deployments", phase |-> "read_deployments"] >>

\* The fetches of read k against a store st.  The store answers the first
\* fetch of the reads in st.failing with an error, the second fetches (canvas
\* edges, files of a repository) with an error when st.secondaryFails, and
\* every list with st.items rows
\* (top-level requirements, artifacts with an ai_summary, one repository per
\* row with one file each, a project without organization).
Fetches(k, st) ==
  LET ok == k \notin st.failing
  IN CASE k = 1 -> <<Fetch("get_project_with_token", ok)>>
       [] k = 2 -> <<Fetch("get_requirements_with_token", ok)>>
       [] k = 3 -> <<Fetch("get_artifacts_with_token", ok)>>
       [] k = 4 -> <<Fetch("get_specifications_with_token", ok)>>
       [] k = 5 -> <<Fetch("get_canvas_nodes_with_token", ok),
                     Fetch("get_canvas_edges_with_token", ~st.secondaryFails)>>
       [] k = 6 -> <<Fetch("get_repos_with_token", ok)>>
                   \o (IF ok THEN Repeat(Fetch("get_repo_files_with_token", ~st.secondaryFails),
                                   st.items)
                       ELSE <<>>)
       [] k = 7 -> <<Fetch("get_databases_with_token", ok)>>
       [] k = 8 -> <<Fetch("get_database_connections_with_token", ok)>>
       [] k = 9 -> <<Fetch("get_deployments_with_token", ok)>>

\* the categories of the entries read k adds for c rows
EntryCategories(k, c) ==
  CASE k = 1 -> <<"observation", "insight", "narrative">>
    [] k = 2 -> <<"observation">>
                \o (IF c > 0 THEN <<"analysis", "narrative">> \o Repeat("insight", Min(c, 5))
                    ELSE <<>>)
    [] k = 3 -> <<"observation">>
                \o (IF c > 0 THEN <<"observation">> \o Repeat("insight", Min(c, 3)) ELSE <<>>)
    [] k = 4 -> <<"observation">>
    [] k = 5 -> <<"observation">>
                \o (IF c > 0 THEN <<"analysis", "insight", "narrative">> ELSE <<>>)
    [] k = 6 -> <<"observation">> \o (IF c > 0 THEN <<"analysis">> ELSE <<>>)
    [] k = 7 -> <<"observation">>
    [] k = 8 -> <<"observation">>
    [] k = 9 -> <<"observation">> \o (IF c > 0 THEN <<"insight">> ELSE <<>>)

\* the rows read k keeps in collectedData (the project row for read_settings,
\* the nodes of the canvas, the files of the repositories: `if (files)`)
Rows(k, st) ==
  CASE k = 1 -> 1
    [] k = 6 -> IF st.secondaryFails THEN 0 ELSE st.items
    [] OTHER -> st.items


(***************************************************************************)
(* serve: start, data collection, synthesis, planning                      *)
(***************************************************************************)
Unset == -1
NoData == [k \in 1..Len(tools) |-> Unset]

\* the "starting" status, the first update of the presentation, then the
\* check of the API key: a missing key throws into the outer catch
Start ==
  /\ pc = "start"
  /\ calls' = Append(calls, UpdatePresentation("generating", <<>>, <<>>, {"p_status"}))
  /\ IF ~geminiKey
     THEN /\ stream' = stream \o <<StatusEvent("starting"), ErrorEvent>>
          /\ pc' = "closed"
          /\ UNCHANGED readIdx
     ELSE /\ stream' = Append(stream, StatusEvent("starting"))
          /\ pc' = "read"
          /\ readIdx' = 1
  /\ UNCHANGED <<extract, raceVars, geminiKey, store, toolResults, collectedData, completionScore,
                 blackboard, slideVars, parseVars, storyVars, outlineVars>>

\* One read: its status event, its fetches, and on success its entries.  An
\* error of the fetch is caught inside the tool and becomes a failed result.
Read ==
  /\ pc = "read"
  /\ LET k == readIdx
         ok == k \notin store.failing
         fx0 == Effects(blackboard, Append(stream, StatusEvent(tools[k].phase)),
                        calls \o Fetches(k, store))
         fx == IF ok
               THEN AddEntries(fx0, tools[k].tool, EntryCategories(k, Rows(k, store)))
               ELSE fx0
     IN /\ blackboard' = fx.blackboard
        /\ stream' = fx.stream
        /\ calls' = fx.calls
        /\ collectedData' = IF ok THEN [collectedData EXCEPT ![k] = Rows(k, store)]
                            ELSE collectedData
        /\ toolResults' = Append(toolResults, [tool |-> tools[k].tool, success |-> ok])
        /\ readIdx' = k + 1
        /\ pc' = IF k = Len(tools) THEN "synthesis" ELSE "read"
  /\ UNCHANGED <<extract, raceVars, geminiKey, store, completionScore, slideVars, parseVars, storyVars,
                 outlineVars>>

\* collectedData.x?.length || 0
CountOf(data, k) == IF data[k] = Unset THEN 0 ELSE data[k]

\* (mutant) the weights of the canvas and of the code exchanged
weightsExchanged == <<0, 15, 10, 15, 25, 20, 8, 0, 7>>
weights == <<0, 15, 10, 15, 20, 25, 8, 0, 7>>
Score(data) ==
  Min(100, SumSeq([k \in 1..Len(tools) |-> IF CountOf(data, k) > 0 THEN weights[k] ELSE 0]))

\* collectedData.settings?.name || "Project"
ProjectName(data) == IF data[1] = Unset THEN "Project" ELSE "Acme"

\* Synthesis: the score, the two synthesis entries, the checkpoint of the
\* blackboard, the "planning" status, and the call of generateSlideOutline
Synthesis ==
  /\ pc = "synthesis"
  /\ completionScore' = Score(collectedData)
  /\ LET fx0 == Effects(blackboard, Append(stream, StatusEvent("synthesis")), calls)
         fx == AddEntries(fx0, "synthesis", <<"estimate", "narrative">>)
     IN /\ blackboard' = fx.blackboard
        /\ stream' = Append(fx.stream, StatusEvent("planning"))
        /\ calls' = Append(fx.calls,
                           UpdatePresentation("generating_slides", <<>>, fx.blackboard,
                                              {"p_blackboard", "p_status"}))
  /\ goPc' = "story"
  /\ EnterStory
  /\ pc' = "outline"
  /\ UNCHANGED <<extract, raceVars, geminiKey, store, readIdx, toolResults, collectedData, slideVars,
                 parseVars, targetSlides, outlineReply, goResult>>

OutlineObject(order, layoutId, title, purpose, keyContent) ==
  JObj(<<Member(<<"order">>, JNum(order)),
         Member(<<"layoutId">>, Str(layoutId)),
         Member(<<"title">>, Str(title)),
         Member(<<"purpose">>, Str(purpose)),
         Member(<<"keyContent">>, JArr(keyContent))>>)

\* the number of items of the basic outline
FallbackOutlineLength == 4

\* (mutant) a basic outline of the cover slide alone
FallbackOutlineCoverOnly(data, score, bb) ==
  << OutlineObject(1, "title-cover", ProjectName(data), "Cover slide",
                   <<Str(ProjectName(data))>>) >>

\* (mutant) a basic outline that opens with the quote slide
FallbackOutlineQuoteFirst(data, score, bb) ==
  << OutlineObject(1, "quote", "Executive Summary", "Key takeaways",
                   <<Str("Key takeaways")>>),
     OutlineObject(2, "title-cover", ProjectName(data), "Cover slide",
                   <<Str(ProjectName(data))>>),
     OutlineObject(3, "stats-grid", "Project Status", "Current metrics",
                   <<Str("Requirements")>>),
     OutlineObject(4, "bullets", "Key Insights", "Highlights from analysis", <<>>) >>

\* the basic outline of the catch branch; the content of an insight is
\* represented by its source
FallbackOutline(data, score, bb) ==
  LET projectName == ProjectName(data)
      insights == SelectSeq(bb, LAMBDA e : e.category = "insight")
      firstFour == SubSeq(insights, 1, Min(4, Len(insights)))
  IN << OutlineObject(1, "title-cover", projectName, "Cover slide", <<Str(projectName)>>),
        OutlineObject(2, "quote", "Executive Summary", "Key takeaways",
                      << JStr(Digits(score) \o <<"% complete">>),
                         JStr(Digits(CountOf(data, 2)) \o <<" requirements">>) >>),
        OutlineObject(3, "stats-grid", "Project Status", "Current metrics",
                      <<Str("Requirements"), Str("Architecture"), Str("Code"),
                        Str("Progress")>>),
        OutlineObject(4, "bullets", "Key Insights", "Highlights from analysis",
                      [i \in 1..Len(firstFour) |-> Str(firstFour[i].source)]) >>

\* generateSlideOutline has returned or thrown: the outline, or the basic one,
\* and the status event that announces the slide loop
OutlineDone ==
  /\ pc = "outline"
  /\ goPc = "done"
  /\ LET outline == IF goResult.threw
                    THEN FallbackOutline(collectedData, completionScore, blackboard)
                    ELSE goResult.outline
     IN /\ slideOutline' = outline
        /\ stream' = Append(stream, ProgressEvent("generating_slides", 0, Len(outline)))
        /\ pc' = IF Len(outline) = 0 THEN "enrich" ELSE "slides"
  /\ slideIdx' = 0
  /\ UNCHANGED <<extract, raceVars, collectVars, blackboard, calls, llmReply, slidesJson, nextId,
                 slidesNeedingImages, imgIdx, imagesGenerated, parseVars, storyVars,
                 outlineVars>>


(***************************************************************************)
(* generateSingleSlide, createFallbackSlide                                *)
(***************************************************************************)
IsStr(v) == v.t = "str"
\* generateId(): the k-th fresh id
FreshId(k) == JStr(<<"uuid">> \o Digits(k))

\* Building the prompt reads outline.purpose.toLowerCase(),
\* outline.title.toLowerCase(), outline.keyContent.some(...) and
\* outline.keyContent.join("; "): a TypeError when one of them is missing or
\* of another type
PromptThrows(outline) ==
  \/ ~IsStr(Get(outline, <<"purpose">>))
  \/ ~IsStr(Get(outline, <<"title">>))
  \/ ~IsArray(Get(outline, <<"keyContent">>))

SlideThrew(called) == [threw |-> TRUE, called |-> called, fresh |-> 0, slide |-> NoSlide]
SlideReturned(called, fresh, slide) ==
  [threw |-> FALSE, called |-> called, fresh |-> fresh, slide |-> slide]

\* the slide built from the parsed reply: "Invalid slide format" is thrown
\* for a value that is falsy or whose typeof is not "object"
SlideFromParsed(outline, p, id) ==
  IF ~Truthy(p) \/ ~TypeofObject(p) THEN SlideThrew(TRUE)
  ELSE SlideReturned(TRUE,
         IF Truthy(Get(p, <<"id">>)) THEN 0 ELSE 1,
         Slide(OrElse(Get(p, <<"id">>), id),
               Get(outline, <<"order">>),
               Get(outline, <<"layoutId">>),
               OrElse(Get(p, <<"title">>), Get(outline, <<"title">>)),
               OrElse(Get(p, <<"subtitle">>), JNull),
               IF IsArray(Get(p, <<"content">>)) THEN Get(p, <<"content">>).kids
               ELSE <<>>,
               OrElse(Get(p, <<"notes">>), Get(outline, <<"purpose">>)),
               OrElse(Get(outline, <<"imagePrompt">>), Get(p, <<"imagePrompt">>)),
               JNull))

\* Array.prototype.slice(from, to) for indexes that are not negative
ArraySlice(arr, from, to) == SubSeq(arr, from + 1, Min(to, Len(arr)))
\* allOutlines.slice(0, outline.order - 1), allOutlines.slice(outline.order)
prevSlides(outline, allOutlines) ==
  ArraySlice(allOutlines, 0, Get(outline, <<"order">>).n - 1)
nextSlides(outline, allOutlines) ==
  ArraySlice(allOutlines, Get(outline, <<"order">>).n, Len(allOutlines))
TitlesOf(items) == [j \in 1..Len(items) |-> Get(items[j], <<"title">>)]
\* (mutant) every request is made for the first item of the outline
SlideCallFirst(ok, outline, allOutlines) ==
  [LlmCall("slide", ok) EXCEPT
     !.slides = <<allOutlines[1]>>,
     !.prev = <<>>,
     !.next = TitlesOf(ArraySlice(allOutlines, 1, 4))]

\* the request for a slide: prev, next are the titles the STORY FLOW part of
\* the prompt names as previous and as next slides
SlideCall(ok, outline, allOutlines) ==
  [LlmCall("slide", ok) EXCEPT
     !.slides = <<outline>>,
     !.prev = TitlesOf(prevSlides(outline, allOutlines)),
     !.next = TitlesOf(ArraySlice(nextSlides(outline, allOutlines), 0, 3))]

\* generateSingleSlide for the reply the LLM gives; id is the id generateId()
\* would return; called: the LLM was called; fresh: the ids generated
generateSingleSlide(outline, reply, id) ==
  IF PromptThrows(outline) THEN SlideThrew(FALSE)
  ELSE IF ~reply.ok THEN SlideThrew(TRUE)
  ELSE SlideFromParsed(outline, parseAgentResponseText(reply.text), id)

\* outline.keyContent.map(kc => `**${kc}**`).join("\n\n")
RECURSIVE BoldJoin(_)
BoldJoin(kcs) ==
  IF kcs = <<>> THEN <<>>
  ELSE <<"**">> \o Head(kcs).s \o <<"**">>
       \o (IF Len(kcs) > 1 THEN <<NL, NL>> ELSE <<>>) \o BoldJoin(Tail(kcs))

Region(regionId, type, data) ==
  JObj(<<Member(<<"regionId">>, Str(regionId)), Member(<<"type">>, Str(type)),
         Member(<<"data">>, JObj(data))>>)

\* createFallbackSlide: outline.keyContent.map throws when keyContent is no
\* array
createFallbackSlide(outline, id) ==
  IF ~IsArray(Get(outline, <<"keyContent">>)) THEN SlideThrew(FALSE)
  ELSE SlideReturned(FALSE, 1,
         Slide(id,
               Get(outline, <<"order">>),
               Get(outline, <<"layoutId">>),
               Get(outline, <<"title">>),
               JNull,
               <<Region("content", "richtext",
                        <<Member(<<"text">>,
                                 JStr(BoldJoin(Get(outline, <<"keyContent">>).kids)))>>)>>,
               Get(outline, <<"purpose">>),
               Get(outline, <<"imagePrompt">>),
               JNull))

\* (i + 1) % 3 === 0 || i === slideOutline.length - 1
checkpointDue(i, n) == (i + 1) % 3 = 0 \/ i = n - 1

\* (mutant) the checkpoint marks the presentation as completed
CheckpointCompleted(i, n, slides) ==
  IF checkpointDue(i, n)
  THEN <<UpdatePresentation("completed", slides, <<>>, {"p_slides", "p_status"})>>
  ELSE <<>>

\* (mutant) the checkpoint writes the status only
CheckpointStatusOnly(i, n, slides) ==
  IF checkpointDue(i, n)
  THEN <<UpdatePresentation("generating", <<>>, <<>>, {"p_status"})>>
  ELSE <<>>

\* the checkpoint of the try branch, after slide i
Checkpoint(i, n, slides) ==
  IF checkpointDue(i, n)
  THEN <<UpdatePresentation("generating", slides, <<>>, {"p_slides", "p_status"})>>
  ELSE <<>>


(***************************************************************************)
(* serve: the slide loop                                                   *)
(***************************************************************************)
\* the replies of the LLM to a slide request: an HTTP failure, a text without
\* JSON, a slide object (with its own id and an image prompt), an array
SlideObject ==
  JObj(<<Member(<<"id">>, Str("s1")),
         Member(<<"title">>, Str("Generated")),
         Member(<<"content">>, JArr(<<JObj(<<Member(<<"regionId">>, Str("main"))>>)>>)),
         Member(<<"notes">>, Str("Notes")),
         Member(<<"imagePrompt">>, Str("Draw"))>>)
SlideTexts == {<<"Sure">>, Stringify(SlideObject), Stringify(JArr(<<>>))}
SlideReplies == {NoReply} \cup {[ok |-> TRUE, text |-> t] : t \in SlideTexts}

\* One turn of the slide loop for item i: the status event, generateSingleSlide
\* with the streamed slide and the checkpoint, or in the catch branch the
\* fallback slide.  An exception of createFallbackSlide leaves the loop for
\* the outer catch: the "error" event and the close of the stream.
GenerateSlide ==
  /\ pc = "slides"
  /\ \E reply \in SlideReplies :
     \E r \in {generateSingleSlide(slideOutline[slideIdx + 1], reply, FreshId(nextId))} :
     \E done \in {IF r.threw
                  THEN createFallbackSlide(slideOutline[slideIdx + 1], FreshId(nextId))
                  ELSE r} :
     \E st \in {Append(stream, ProgressEvent("generating_slides", slideIdx + 1,
                                             Len(slideOutline)))} :
     \E cl \in {IF r.called THEN Append(calls, SlideCall(reply.ok, slideOutline[slideIdx + 1],
                                                         slideOutline))
                ELSE calls} :
       /\ llmReply' = IF r.called THEN reply ELSE NoReply
       /\ IF done.threw
          THEN /\ stream' = Append(st, ErrorEvent)
               /\ calls' = cl
               /\ pc' = "closed"
               /\ UNCHANGED <<slidesJson, slideIdx>>
          ELSE /\ slidesJson' = Append(slidesJson, done.slide)
               /\ stream' = Append(st, SlideEvent(done.slide))
               /\ calls' = IF ~r.threw
                           THEN cl \o Checkpoint(slideIdx, Len(slideOutline),
                                                 Append(slidesJson, done.slide))
                           ELSE cl
               /\ slideIdx' = slideIdx + 1
               /\ pc' = IF slideIdx + 1 = Len(slideOutline) THEN "enrich" ELSE "slides"
       /\ nextId' = nextId + (IF r.threw THEN 1 ELSE r.fresh)
  /\ UNCHANGED <<extract, raceVars, collectVars, blackboard, slideOutline, slidesNeedingImages, imgIdx,
                 imagesGenerated, parseVars, storyVars, outlineVars>>

(***************************************************************************)
(* serve: the image phase, the final save                                  *)
(***************************************************************************)
MaxImagesPerRun == 5

\* (mutant) every slide is taken for enrichment
NeedingAll(slides) == [j \in 1..Len(slides) |-> j]

\* slidesJson.filter(s => s.imagePrompt && !s.imageUrl), as positions in
\* slidesJson (the filter keeps references to the slides)
NeedingImages(slides) ==
  SelectSeq([j \in 1..Len(slides) |-> j],
            LAMBDA j : Truthy(slides[j].imagePrompt) /\ ~Truthy(slides[j].imageUrl))

\* the end of the slide loop: the slides to enrich are selected
StartImages ==
  /\ pc = "enrich"
  /\ slidesNeedingImages' = NeedingImages(slidesJson)
  /\ imgIdx' = 0
  /\ imagesGenerated' = 0
  /\ IF NeedingImages(slidesJson) = <<>>
     THEN /\ pc' = "saving"
          /\ UNCHANGED stream
     ELSE /\ pc' = "images"
          /\ stream' = Append(stream, StatusEvent("generating_images"))
  /\ UNCHANGED <<extract, raceVars, collectVars, blackboard, calls, slideOutline, slideIdx, llmReply,
                 slidesJson, nextId, parseVars, storyVars, outlineVars>>

imageLayouts == <<
  [layoutId |-> "image-left", region |-> "image"],
  [layoutId |-> "image-right", region |-> "image"],
  [layoutId |-> "architecture", region |-> "diagram"],
  [layoutId |-> "title-cover", region |-> "background"] >>
\* imageLayouts[layoutId], "" when undefined
ImageRegion(layoutId) ==
  IF \E k \in 1..Len(imageLayouts) : Str(imageLayouts[k].layoutId) = layoutId
  THEN imageLayouts[CHOOSE k \in 1..Len(imageLayouts) :
                      Str(imageLayouts[k].layoutId) = layoutId].region
  ELSE ""

\* slidesJson.findIndex(s => s.id === id), 0 when there is none
FindIndex(slides, id) ==
  IF \E j \in 1..Len(slides) : slides[j].id = id
  THEN CHOOSE j \in 1..Len(slides) :
         slides[j].id = id /\ \A h \in 1..(j - 1) : slides[h].id # id
  ELSE 0

\* (mutant) the image region replaces the regions the slide had
AttachImageReplacing(slides, slideIndex, slide, url) ==
  [slides EXCEPT
     ![slideIndex] =
       [@ EXCEPT !.imageUrl = url,
                 !.content = <<Region(ImageRegion(slide.layoutId), "image",
                                      <<Member(<<"url">>, url),
                                        Member(<<"alt">>, slide.imagePrompt)>>)>>]]

\* the slide at slideIndex gets the url and, for an image layout without an
\* image in that region, an image region
AttachImage(slides, slideIndex, slide, url) ==
  LET region == ImageRegion(slide.layoutId)
      target == slides[slideIndex]
      hasImageContent ==
        \E c \in 1..Len(target.content) :
          /\ Get(target.content[c], <<"regionId">>) = Str(region)
          /\ Get(target.content[c], <<"type">>) = Str("image")
      content == IF region # "" /\ ~hasImageContent
                 THEN Append(target.content,
                             Region(region, "image",
                                    <<Member(<<"url">>, url),
                                      Member(<<"alt">>, slide.imagePrompt)>>))
                 ELSE target.content
  IN [slides EXCEPT ![slideIndex] = [@ EXCEPT !.imageUrl = url, !.content = content]]

\* the request to the image function for the prompt of a slide
ImageCall(ok, slide) == Call("image", "enhance-image", ok, "", <<slide>>, <<>>, {})

\* One turn of the image loop; generateSlideImage returns a url or null.
\* After the last turn the observation of the phase is added.
GenerateImage ==
  /\ pc = "images"
  /\ \E ok \in BOOLEAN :
       LET maxImages == Min(Len(slidesNeedingImages), MaxImagesPerRun)
           slide == slidesJson[slidesNeedingImages[imgIdx + 1]]
           url == JStr(<<"img">> \o Digits(imgIdx + 1))
           slideIndex == FindIndex(slidesJson, slide.id)
           last == imgIdx + 1 = maxImages
           fx0 == Effects(blackboard, Append(stream, StatusEvent("generating_images")),
                          Append(calls, ImageCall(ok, slide)))
           fx == IF last
                 THEN addToBlackboard(fx0, Entry("image_generation", "observation"))
                 ELSE fx0
       IN /\ slidesJson' = IF ok /\ slideIndex # 0
                           THEN AttachImage(slidesJson, slideIndex, slide, url)
                           ELSE slidesJson
          /\ imagesGenerated' = IF ok THEN imagesGenerated + 1 ELSE imagesGenerated
          /\ imgIdx' = imgIdx + 1
          /\ blackboard' = fx.blackboard
          /\ stream' = fx.stream
          /\ calls' = fx.calls
          /\ pc' = IF last THEN "saving" ELSE "images"
  /\ UNCHANGED <<extract, raceVars, collectVars, slideOutline, slideIdx, llmReply, nextId,
                 slidesNeedingImages, parseVars, storyVars, outlineVars>>

\* the "saving" status, the final update, the "complete" event, the close
Save ==
  /\ pc = "saving"
  /\ calls' = Append(calls,
                     UpdatePresentation("completed", slidesJson, blackboard,
                                        {"p_slides", "p_blackboard", "p_metadata",
                                         "p_status"}))
  /\ stream' = stream \o <<StatusEvent("saving"),
                           CompleteEvent(Len(slidesJson), Len(blackboard))>>
  /\ pc' = "closed"
  /\ UNCHANGED <<extract, raceVars, collectVars, blackboard, slideVars, parseVars, storyVars, outlineVars>>

(***************************************************************************)
(* One run of serve                                                        *)
(***************************************************************************)
MaxItems == 1
MaxTarget == 2

\* the reads that fail: none, read_settings, read_canvas
FailingReads == {{}, {1}, {5}}
Stores ==
  {[items |-> c, failing |-> f, secondaryFails |-> FALSE, persist |-> "ok"] :
     c \in 0..MaxItems, f \in FailingReads}
\* the requested slide counts: small ones, the length of the basic outline,
\* and one above the 21 slides the sections can take
Targets == (1..MaxTarget) \cup {FallbackOutlineLength, MaxStoryTarget}

\* the replies of the LLM to the outline request in a run: an HTTP failure, a
\* text without JSON, an empty array, an item without keyContent, two
\* well-formed items
RunOutlineTexts ==
  { <<"Sure">>,
    Stringify(JArr(<<>>)),
    Stringify(JArr(<<OutlineItem("Bare", "bullets", <<>>)>>)),
    Stringify(JArr(<<
      OutlineItem("Intro", "title-cover", KeyContent \o <<Member(<<"order">>, JNum(9))>>),
      OutlineItem("Additional Insights", "image-left",
                  KeyContent \o <<Member(<<"imagePrompt">>, Str("Sketch"))>>)>>)) }
RunOutlineReplies == {NoReply} \cup {[ok |-> TRUE, text |-> t] : t \in RunOutlineTexts}
\* the replies on which generateSlideOutline throws for every slide count
FailingOutlineReplies == {NoReply, [ok |-> TRUE, text |-> <<"Sure">>]}
\* a run's request and the reply to its outline request; the request for as
\* many slides as the basic outline has is run against the failing replies
RunInputs ==
  {in \in Targets \X RunOutlineReplies :
     (in[1] = FallbackOutlineLength /\ MaxTarget < FallbackOutlineLength)
       => in[2] \in FailingOutlineReplies}

Init ==
  /\ IdleRace
  /\ pc = "start"
  /\ geminiKey \in BOOLEAN
  /\ store \in Stores
  /\ \E in \in RunInputs : targetSlides = in[1] /\ outlineReply = in[2]
  /\ readIdx = 0
  /\ toolResults = <<>>
  /\ collectedData = NoData
  /\ completionScore = 0
  /\ blackboard = <<>>
  /\ stream = <<>>
  /\ calls = <<>>
  /\ slideOutline = <<>>
  /\ slideIdx = 0
  /\ llmReply = NoReply
  /\ slidesJson = <<>>
  /\ nextId = 0
  /\ slidesNeedingImages = <<>>
  /\ imgIdx = 0
  /\ imagesGenerated = 0
  /\ goPc = "idle"
  /\ goResult = NoOutcome
  /\ IdleStory
  /\ IdleParse

Next ==
  \/ Start
  \/ Read
  \/ Synthesis
  \/ BsFirstPass
  \/ BsWhile
  \/ BsFor
  \/ BsGuard
  \/ BsReturn
  \/ GoFetch
  \/ OutlineDone
  \/ GenerateSlide
  \/ StartImages
  \/ GenerateImage
  \/ Save

Spec == Init /\ [][Next]_vars

\* The slide loop alone, for outlines of every length up to MaxOutline
MaxOutline == 6
PlainItem(i) ==
  OutlineObject(i, "bullets", "Topic", "Purpose", <<Str("Point")>>)
TitledItem(i) ==
  JObj(PutMember(PlainItem(i).kids, Member(<<"title">>, JStr(<<"Topic">> \o Digits(i)))))
\* an item as the model may return it: no title
UntitledItem(i) ==
  JObj(<<Member(<<"order">>, JNum(i)),
         Member(<<"layoutId">>, Str("bullets")),
         Member(<<"purpose">>, Str("Purpose")),
         Member(<<"keyContent">>, JArr(<<Str("Point")>>))>>)
Outlines ==
  {[i \in 1..n |-> IF i = u THEN UntitledItem(i) ELSE TitledItem(i)] :
     n \in 1..MaxOutline, u \in 0..1}

InitSlides ==
  /\ IdleRace
  /\ pc = "slides"
  /\ geminiKey = TRUE
  /\ store = NoStore
  /\ targetSlides = 1
  /\ readIdx = Len(tools) + 1
  /\ toolResults = <<>>
  /\ collectedData = NoData
  /\ completionScore = 0
  /\ blackboard = <<>>
  /\ stream = <<>>
  /\ calls = <<>>
  /\ slidesJson = <<>>
  /\ slideOutline \in Outlines
  /\ slideIdx = 0
  /\ llmReply = NoReply
  /\ nextId = 1
  /\ slidesNeedingImages = <<>>
  /\ imgIdx = 0
  /\ imagesGenerated = 0
  /\ IdleOutline
  /\ IdleStory
  /\ IdleParse

SpecSlides == InitSlides /\ [][GenerateSlide]_vars

\* The run from the end of the slide loop on, for every list of slides the loop
\* can leave: slides without an image prompt, slides with one, under ids of
\* their own or under the id the model gave.
MaxSlides == 6
\* the layouts change along the list: two image layouts, one without image
LoopLayouts == <<"image-left", "architecture", "bullets">>
LayoutAt(position) == LoopLayouts[((position - 1) % Len(LoopLayouts)) + 1]
LoopSlide(kind, position) ==
  Slide(IF kind = "model id" THEN Str("s1") ELSE FreshId(position),
        JNum(position),
        Str(LayoutAt(position)),
        Str("Title"),
        JNull,
        <<>>,
        Str("Notes"),
        IF kind = "plain" THEN JNull ELSE JStr(<<"Draw">> \o Digits(position)),
        JNull)
SlideKinds == {"plain", "prompt", "model id"}
LoopSlides ==
  {[j \in 1..Len(kinds) |-> LoopSlide(kinds[j], j)] : kinds \in SeqsUpTo(SlideKinds, MaxSlides)}

InitImages ==
  /\ IdleRace
  /\ pc = "enrich"
  /\ geminiKey = TRUE
  /\ store = NoStore
  /\ targetSlides = 1
  /\ readIdx = Len(tools) + 1
  /\ toolResults = <<>>
  /\ collectedData = NoData
  /\ completionScore = 0
  /\ blackboard = <<>>
  /\ stream = <<>>
  /\ calls = <<>>
  /\ slidesJson \in LoopSlides
  /\ slideOutline = <<>>
  /\ slideIdx = Len(slidesJson)
  /\ llmReply = NoReply
  /\ nextId = Len(slidesJson)
  /\ slidesNeedingImages = <<>>
  /\ imgIdx = 0
  /\ imagesGenerated = 0
  /\ IdleOutline
  /\ IdleStory
  /\ IdleParse

NextImages ==
  \/ StartImages
  \/ GenerateImage
  \/ Save

SpecImages == InitImages /\ [][NextImages]_vars

(***************************************************************************)
(* audit-extract-concepts: serve                                           *)
(***************************************************************************)
MAX_RETRIES == 3
RETRY_DELAY_MS == 2000
MaxConcepts == 1

\* (mutant) the same delay before every retry
retryDelayConstant(attempt) == RETRY_DELAY_MS

\* const delay = RETRY_DELAY_MS * attempt
retryDelay(attempt) == RETRY_DELAY_MS * attempt

Concept(i) ==
  JObj(<<Member(<<"label">>, JStr(<<"Concept">> \o Digits(i))),
         Member(<<"description">>, Str("About")),
         Member(<<"elementIds">>, JArr(<<Str("e1")>>))>>)
ConceptsObject(n) ==
  JObj(<<Member(<<"concepts">>, JArr([i \in 1..n |-> Concept(i)]))>>)
\* what the upstream model answers: an HTTP error, no answer within the
\* three minutes, or a text: JSON with concepts, the same inside prose, JSON
\* without concepts, prose, prose with braces, the word null
UpstreamTexts ==
  {Stringify(ConceptsObject(n)) : n \in 0..MaxConcepts}
    \cup {<<"Here", SP>> \o Stringify(ConceptsObject(n)) \o <<SP, "done">> :
            n \in 0..MaxConcepts}
    \cup {Stringify(JObj(<<>>)), <<"Sure">>, <<"{", "Sure", "}">>, <<"null">>, <<>>}
UpstreamReplies ==
  {[kind |-> "http", text |-> <<>>], [kind |-> "timeout", text |-> <<>>]}
    \cup {[kind |-> "text", text |-> t] : t \in UpstreamTexts}

\* JSON.parse(rawText), and when that throws, JSON.parse of the text from the
\* first "{" to the last "}"; ok = FALSE: an error is thrown
ParseWithRecovery(text) ==
  IF JsonParse(text).ok THEN JsonParse(text)
  ELSE IF IndexOf(text, "{") # 0 /\ LastIndexOf(text, "}") > IndexOf(text, "{")
  THEN JsonParse(Slice(text, IndexOf(text, "{"), LastIndexOf(text, "}")))
  ELSE PFail

\* the body of the try block of one attempt: [threw, error, concepts]
AttemptThrew(error) == [threw |-> TRUE, error |-> error, concepts |-> JNull]
AttemptOf(reply) ==
  IF reply.kind = "http" THEN AttemptThrew("Claude API error")
  ELSE IF reply.kind = "timeout" THEN AttemptThrew("AbortError")
  ELSE \* result.content?.[0]?.text || "{}"
       LET replyText == IF reply.text = <<>> THEN <<"{", "}">> ELSE reply.text
           recovered == ParseWithRecovery(replyText)
       IN IF ~recovered.ok
          THEN AttemptThrew(IF IndexOf(replyText, "{") # 0
                               /\ LastIndexOf(replyText, "}") > IndexOf(replyText, "{")
                            THEN "SyntaxError" ELSE "Failed to parse JSON")
          \* parsed.concepts of null is a TypeError
          ELSE IF recovered.val.t = "null" THEN AttemptThrew("TypeError")
          ELSE [threw |-> FALSE, error |-> "",
                concepts |-> OrElse(Get(recovered.val, <<"concepts">>), JArr(<<>>))]

\* concepts.length === 0
LengthIsZero(concepts) ==
  \/ concepts.t = "arr" /\ concepts.kids = <<>>
  \/ concepts.t = "str" /\ concepts.s = <<>>

\* One turn of the retry loop: the request to the model and, in the catch
\* branch, the wait before the next attempt.
ExAttempt ==
  /\ extract.pc = "attempt"
  /\ \E reply \in UpstreamReplies :
     \E r \in {AttemptOf(reply)} :
       extract' =
         IF ~r.threw
         THEN [extract EXCEPT !.fetches = Append(@, "ok"),
                              !.concepts = r.concepts,
                              !.pc = "respond"]
         ELSE [extract EXCEPT
                 !.fetches = Append(@, r.error),
                 !.lastError = r.error,
                 !.waits = IF extract.attempt < MAX_RETRIES
                           THEN Append(@, retryDelay(extract.attempt)) ELSE @,
                 !.attempt = @ + 1,
                 !.pc = IF extract.attempt + 1 <= MAX_RETRIES THEN "attempt"
                        ELSE "respond"]
  /\ UNCHANGED <<parseVars, storyVars, outlineVars, calls, runVars, raceVars>>

\* After the loop: the failure response, or the two log rpcs (their errors
\* are caught) and the success response.
ExRespond ==
  /\ extract.pc = "respond"
  /\ extract' =
       IF LengthIsZero(extract.concepts) /\ extract.lastError # ""
       THEN [extract EXCEPT
               !.response = [sent |-> TRUE, success |-> FALSE,
                             error |-> extract.lastError, concepts |-> JArr(<<>>)],
               !.pc = "done"]
       ELSE [extract EXCEPT
               !.logs = <<"insert_audit_blackboard_with_token",
                          "insert_audit_activity_with_token">>,
               !.response = [sent |-> TRUE, success |-> TRUE, error |-> "",
                             concepts |-> extract.concepts],
               !.pc = "done"]
  /\ UNCHANGED <<parseVars, storyVars, outlineVars, calls, runVars, raceVars>>

Datasets == {"d1", "d2"}
InitExtract ==
  /\ \E d \in Datasets :
       extract = [NoExtract EXCEPT !.pc = "attempt", !.dataset = d, !.attempt = 1,
                                   !.concepts = JArr(<<>>)]
  /\ runs = <<>>
  /\ presentations = <<>>
  /\ IdleParse
  /\ IdleStory /\ targetSlides = 0
  /\ IdleOutline
  /\ calls = <<>>
  /\ IdleRun

NextExtract ==
  \/ ExAttempt
  \/ ExRespond

SpecExtract == InitExtract /\ [][NextExtract]_vars

\* The runtime keeps executing the handler: a run that can take a step takes
\* it.  The steps that parse a reply are named by the variables they always
\* change: the step out of the outline request sets goPc, a turn of the slide
\* loop advances slideIdx or closes the run.
GoStep == goPc = "story" /\ bsPc = "done" /\ goPc' = "done"
SlideStep ==
  /\ pc = "slides"
  /\ pc' \in {"slides", "enrich", "closed"}
  /\ slideIdx' \in {slideIdx, slideIdx + 1}
SpecFair ==
  /\ Spec
  /\ WF_vars(Start) /\ WF_vars(Read) /\ WF_vars(Synthesis) /\ WF_vars(NextStory)
  /\ WF_goPc(GoStep) /\ WF_vars(OutlineDone) /\ WF_<<pc, slideIdx>>(SlideStep)
  /\ WF_vars(StartImages) /\ WF_vars(GenerateImage) /\ WF_vars(Save)

\* The data collection alone, against every store: any set of failing reads,
\* failing second fetches, every outcome of the append rpc.
PersistOutcomes == {"ok", "error", "alternate"}
\* the most rows a list of the store holds in the data collection
MaxRows == 3
CollectStores ==
  {[items |-> c, failing |-> f, secondaryFails |-> sf, persist |-> p] :
     c \in 0..MaxRows, f \in SUBSET (1..Len(tools)), sf \in BOOLEAN,
     p \in PersistOutcomes}

InitCollect ==
  /\ IdleRace
  /\ pc = "start"
  /\ geminiKey \in BOOLEAN
  /\ store \in CollectStores
  /\ targetSlides = 1
  /\ outlineReply = NoReply
  /\ readIdx = 0
  /\ toolResults = <<>>
  /\ collectedData = NoData
  /\ completionScore = 0
  /\ blackboard = <<>>
  /\ stream = <<>>
  /\ calls = <<>>
  /\ slideOutline = <<>>
  /\ slideIdx = 0
  /\ llmReply = NoReply
  /\ slidesJson = <<>>
  /\ nextId = 0
  /\ slidesNeedingImages = <<>>
  /\ imgIdx = 0
  /\ imagesGenerated = 0
  /\ goPc = "idle"
  /\ goResult = NoOutcome
  /\ IdleStory
  /\ IdleParse

NextCollect ==
  \/ Start
  \/ Read
  \/ Synthesis

SpecCollect == InitCollect /\ [][NextCollect]_vars


(***************************************************************************)
(* Two runs of serve at once                                               *)
(***************************************************************************)
\* A run is followed through the steps at which it writes the presentation
\* row: each step is the code from one await of a write to the next, so the
\* interleavings of the steps are the interleavings of the writes.  A run
\* makes its first `reads` reads (each leaving one entry), n slides of which
\* the first carries an image prompt, the image phase and the final save.
MaxRunReads == 1
MaxRunSlides == 3
PresentationIds == {"p1", "p2"}

\* a row of the presentations table; log is a history of the updates that
\* wrote the slides: who wrote, with which status, how many slides
NoRow == [status |-> "draft", slides |-> <<>>, blackboard |-> <<>>, log |-> <<>>]

\* The two rpcs that write the row.  update_presentation_with_token
\* overwrites the columns it is passed, whatever the row holds;
\* append_presentation_blackboard_with_token appends the entry to the
\* blackboard column.
ApplyCall(row, r, call) ==
  IF call.name = "append_presentation_blackboard_with_token"
  THEN [row EXCEPT !.blackboard = row.blackboard \o call.blackboard]
  ELSE IF call.name = "update_presentation_with_token"
  THEN [status |-> IF "p_status" \in call.has THEN call.status ELSE row.status,
        slides |-> IF "p_slides" \in call.has THEN call.slides ELSE row.slides,
        blackboard |-> IF "p_blackboard" \in call.has THEN call.blackboard
                       ELSE row.blackboard,
        log |-> IF "p_slides" \in call.has
                THEN Append(row.log, [by |-> r, status |-> call.status,
                                      count |-> Len(call.slides)])
                ELSE row.log]
  ELSE row
RECURSIVE ApplyCalls(_, _, _)
ApplyCalls(row, r, cs) ==
  IF cs = <<>> THEN row ELSE ApplyCalls(ApplyCall(row, r, Head(cs)), r, Tail(cs))

\* the state of a run on its start: the request and the locals of start()
NewRun(r, pid, reads, n) ==
  [id |-> r, pid |-> pid, reads |-> reads, n |-> n, pc |-> "start", steps |-> 0,
   blackboard |-> <<>>, slidesJson |-> <<>>, stream |-> <<>>, calls |-> <<>>]

\* generateId() in run r: ids are unique across runs
RunId(r, k) == FreshId(10 * r + k)
\* fullEntry: the entry with its id
FullEntry(r, k, source, category) ==
  [id |-> RunId(r, k), source |-> source, category |-> category]

\* (mutant) the blackboard is one array of the module, shared by the runs
RECURSIVE blackboardShared(_, _)
blackboardShared(r, rs) ==
  IF rs = <<>> THEN <<>>
  ELSE Head(rs).blackboard \o blackboardShared(r, Tail(rs))

\* const blackboard: BlackboardEntry[] = [] inside start(): the array run r
\* reads is its own
blackboardOf(r, rs) == rs[r].blackboard

\* the "starting" status and the first update of the presentation
runStart(run) ==
  [run EXCEPT !.stream = Append(@, StatusEvent("starting")),
              !.calls = Append(@, UpdatePresentation("generating", <<>>, <<>>,
                                                     {"p_status"})),
              !.pc = "read"]

\* one read and its entry (the fetches of project data are left out: they
\* do not touch the presentation row); after the last read, the status event
\* that announces the slide loop
runRead(run) ==
  LET k == Len(run.blackboard) + 1
      fx == addToBlackboard(Effects(run.blackboard,
                                    Append(run.stream, StatusEvent(tools[k].phase)),
                                    run.calls),
                            FullEntry(run.id, k, tools[k].tool, "observation"))
      last == k = run.reads
  IN [run EXCEPT !.blackboard = fx.blackboard,
                 !.stream = IF last
                            THEN Append(fx.stream,
                                        ProgressEvent("generating_slides", 0, run.n))
                            ELSE fx.stream,
                 !.calls = fx.calls,
                 !.pc = IF last THEN "slides" ELSE "read"]

\* one turn of the slide loop, the LLM answering with a slide: the status
\* event, the slide, its event, the checkpoint when it is due
runSlide(run) ==
  LET i == Len(run.slidesJson)
      slide == Slide(RunId(run.id, run.reads + 2 + i), JNum(i + 1), Str("image-left"),
                     Str("Title"), JNull, <<>>, Str("Notes"),
                     IF i = 0 THEN Str("Draw") ELSE JNull, JNull)
      slides == Append(run.slidesJson, slide)
  IN [run EXCEPT !.slidesJson = slides,
                 !.stream = @ \o <<ProgressEvent("generating_slides", i + 1, run.n),
                                   SlideEvent(slide)>>,
                 !.calls = Append(@, LlmCall("slide", TRUE))
                           \o Checkpoint(i, run.n, slides),
                 !.pc = IF i + 1 = run.n THEN "enrich" ELSE "slides"]

\* the image phase for the one slide that needs an image (the image function
\* returning no image) and the entry that closes it
runEnrich(run) ==
  LET needing == NeedingImages(run.slidesJson)
      fx == addToBlackboard(
              Effects(run.blackboard,
                      run.stream \o <<StatusEvent("generating_images"),
                                      StatusEvent("generating_images")>>,
                      Append(run.calls, ImageCall(FALSE, run.slidesJson[needing[1]]))),
              FullEntry(run.id, run.reads + 1, "image_generation", "observation"))
  IN [run EXCEPT !.blackboard = fx.blackboard,
                 !.stream = fx.stream,
                 !.calls = fx.calls,
                 !.pc = "saving"]

\* the final save with the blackboard the run reads, the "complete" event
runSave(run, bb) ==
  [run EXCEPT !.calls = Append(@, UpdatePresentation("completed", run.slidesJson, bb,
                                                     {"p_slides", "p_blackboard",
                                                      "p_metadata", "p_status"})),
              !.stream = @ \o <<StatusEvent("saving"),
                                CompleteEvent(Len(run.slidesJson), Len(bb))>>,
              !.pc = "closed"]

\* the next step of run r among the runs rs
RunStepOf(r, rs) ==
  LET run == [rs[r] EXCEPT !.steps = @ + 1]
  IN CASE run.pc = "start" -> runStart(run)
       [] run.pc = "read" -> runRead(run)
       [] run.pc = "slides" -> runSlide(run)
       [] run.pc = "enrich" -> runEnrich(run)
       [] run.pc = "saving" -> runSave(run, blackboardOf(r, rs))

\* run r takes its step from position at; the write of the step reaches the
\* row of the run's presentation id
Advance(r, at) ==
  /\ runs[r].pc = at
  /\ \E new \in {RunStepOf(r, runs)} :
       /\ runs' = [runs EXCEPT ![r] = new]
       /\ presentations' =
            [presentations EXCEPT
               ![new.pid] = ApplyCalls(@, r, SubSeq(new.calls, Len(runs[r].calls) + 1,
                                                   Len(new.calls)))]
  /\ UNCHANGED <<extract, parseVars, storyVars, outlineVars, calls, runVars>>

RunStart == \E r \in DOMAIN runs : Advance(r, "start")
RunRead == \E r \in DOMAIN runs : Advance(r, "read")
RunSlide == \E r \in DOMAIN runs : Advance(r, "slides")
RunEnrich == \E r \in DOMAIN runs : Advance(r, "enrich")
RunSave == \E r \in DOMAIN runs : Advance(r, "saving")

RunRequests == PresentationIds \X (1..MaxRunReads) \X (1..MaxRunSlides)
InitTwoRuns ==
  /\ \E a \in RunRequests, b \in RunRequests :
       /\ a[1] = "p1"
       /\ runs = <<NewRun(1, a[1], a[2], a[3]), NewRun(2, b[1], b[2], b[3])>>
  /\ presentations = [p \in PresentationIds |-> NoRow]
  /\ IdleParse
  /\ extract = NoExtract
  /\ IdleStory /\ targetSlides = 0
  /\ IdleOutline
  /\ calls = <<>>
  /\ IdleRun

NextTwoRuns ==
  \/ RunStart
  \/ RunRead
  \/ RunSlide
  \/ RunEnrich
  \/ RunSave

SpecTwoRuns == InitTwoRuns /\ [][NextTwoRuns]_vars


(***************************************************************************)
(* Claims about a run (under Spec)                                         *)
(***************************************************************************)
SlideEvents == SelectSeq(stream, LAMBDA e : e.event = "slide")
HasEvent(name) == \E k \in 1..Len(stream) : stream[k].event = name
LlmCalls == SelectSeq(calls, LAMBDA c : c.kind = "llm")
\* the slide loop is over: it ran to its end, or the run was closed from it
LoopOver == pc \in {"enrich", "images", "saving"} \/ (pc = "closed" /\ slideOutline # <<>>)

\* C3: in the slide loop every outline item, whatever the model call does,
\* gets exactly one slide, appended once and streamed once, with the order
\* and the layoutId of the item.
C3_OneSlidePerItem ==
  /\ Len(SlideEvents) = Len(slidesJson)
  /\ pc = "slides" => Len(slidesJson) = slideIdx
  /\ LoopOver => Len(slidesJson) = Len(slideOutline)
  /\ \A k \in 1..Len(slidesJson) :
       /\ slidesJson[k].order = Get(slideOutline[k], <<"order">>)
       /\ slidesJson[k].layoutId = Get(slideOutline[k], <<"layoutId">>)
       /\ SlideEvents[k].slide[1].id = slidesJson[k].id
       /\ SlideEvents[k].slide[1].order = slidesJson[k].order

AllLlmCallsFailed == \A k \in 1..Len(calls) : calls[k].kind = "llm" => ~calls[k].ok
\* the run is closed and the "complete" event announces count slides
CompletedWith(count) ==
  /\ pc = "closed"
  /\ stream[Len(stream)].event = "complete"
  /\ stream[Len(stream)].current = count
\* C4 as stated: a run in which every LLM call fails emits exactly N slide
\* events and ends with a complete event whose slideCount is N, N the
\* requested targetSlides.
C4_AllFailNSlides ==
  (geminiKey /\ pc = "closed" /\ AllLlmCallsFailed)
    => (Len(SlideEvents) = targetSlides /\ CompletedWith(targetSlides))

\* C4 amended: a run in which every LLM call fails and that closes has emitted
\* exactly 4 slide events, one per item of the basic outline, whatever N is,
\* and its complete event has slideCount 4.
C4_AllFailFourSlides ==
  (geminiKey /\ pc = "closed" /\ AllLlmCallsFailed)
    => (Len(SlideEvents) = FallbackOutlineLength /\ CompletedWith(FallbackOutlineLength))

C4_Witness ==
  /\ geminiKey /\ pc = "closed" /\ AllLlmCallsFailed
  /\ Len(LlmCalls) = FallbackOutlineLength + 1
  /\ targetSlides # FallbackOutlineLength
  /\ CompletedWith(FallbackOutlineLength)

\* an update of the presentation has carried a slide list of length len
Persisted(len) ==
  \E c \in 1..Len(calls) :
    /\ calls[c].name = "update_presentation_with_token"
    /\ "p_slides" \in calls[c].has
    /\ Len(calls[c].slides) = len

\* C5: once item i is processed, from the model or from the fallback, and
\* (i + 1) % 3 = 0 or i is the last index, an update of the presentation with
\* a slide list of length i + 1 has occurred, before item i + 1 is started.
C5_CheckpointAfterItem ==
  \A i \in 0..(slideIdx - 1) : checkpointDue(i, Len(slideOutline)) => Persisted(i + 1)

\* no part of the text is JSON (the parts from i on, the longest first)
NoJsonIn(text) ==
  \A i \in 1..Len(text) :
    \A d \in 0..(Len(text) - i) : ~JsonParse(Slice(text, i, Len(text) - d)).ok
ParsedNull(reply) == reply.ok /\ parseAgentResponseText(reply.text) = JNull
\* the slide is the fallback slide of the outline item
IsFallbackOf(slide, outline) ==
  /\ ~createFallbackSlide(outline, slide.id).threw
  /\ slide.order = createFallbackSlide(outline, slide.id).slide.order
  /\ slide.layoutId = createFallbackSlide(outline, slide.id).slide.layoutId
  /\ slide.title = createFallbackSlide(outline, slide.id).slide.title
  /\ slide.notes = createFallbackSlide(outline, slide.id).slide.notes
  /\ slide.content # <<>>
  /\ slide.content[1] = createFallbackSlide(outline, slide.id).slide.content[1]

\* C8: parseAgentResponseText returns null for a text none of its methods can
\* parse, and its callers turn null into their fallback, not into an error
\* event: the basic outline for the outline, the fallback slide for a slide.
C8_NullBecomesFallback ==
  /\ (goPc = "done" /\ outlineReply.ok)
       => (ParsedNull(outlineReply) \/ ~NoJsonIn(outlineReply.text))
  /\ (goPc = "done" /\ ParsedNull(outlineReply))
       => /\ goResult.threw
          /\ ~HasEvent("error")
          /\ pc # "outline" =>
               slideOutline = FallbackOutline(collectedData, completionScore, blackboard)
  /\ llmReply.ok => (ParsedNull(llmReply) \/ ~NoJsonIn(llmReply.text))
  /\ ParsedNull(llmReply)
       => /\ ~HasEvent("error")
          /\ slideIdx > 0
          /\ Len(slidesJson) >= slideIdx
          /\ IsFallbackOf(slidesJson[slideIdx], slideOutline[slideIdx])

C8_Witness ==
  /\ CompletedWith(Len(slideOutline))
  /\ goPc = "done" /\ ParsedNull(outlineReply) /\ NoJsonIn(outlineReply.text)
  /\ ParsedNull(llmReply) /\ NoJsonIn(llmReply.text)
  /\ IsFallbackOf(slidesJson[slideIdx], slideOutline[slideIdx])

(***************************************************************************)
(* Claims about the data collection (under SpecCollect)                    *)
(***************************************************************************)
AppendName == "append_presentation_blackboard_with_token"
BlackboardEvents == SelectSeq(stream, LAMBDA e : e.event = "blackboard")
StreamedEntries == [i \in 1..Len(BlackboardEvents) |-> BlackboardEvents[i].entry[1]]
AppendCalls == SelectSeq(calls, LAMBDA c : c.name = AppendName)
AppendedEntries == [i \in 1..Len(AppendCalls) |-> AppendCalls[i].blackboard[1]]

\* C14: the blackboard events on the stream carry the entries of the
\* in-memory blackboard in the same order, and so do the append rpcs, one
\* per entry, whatever the outcome of each append rpc.
C14_StreamOrderIsMemoryOrder ==
  /\ StreamedEntries = blackboard
  /\ AppendedEntries = blackboard

C14_Witness ==
  /\ Len(blackboard) >= 3
  /\ blackboard[1] # blackboard[2]
  /\ \E i \in 1..Len(AppendCalls) : ~AppendCalls[i].ok
  /\ \E i \in 1..Len(AppendCalls) : AppendCalls[i].ok

\* the nine reads in the order the execution section lists them
ReadOrder == <<"read_settings", "read_requirements", "read_artifacts",
               "read_specifications", "read_canvas", "read_repo_structure",
               "read_databases", "read_connections", "read_deployments">>
ReadPhases == {"read_settings", "read_requirements", "read_artifacts",
               "read_specifications", "read_canvas", "read_repo",
               "read_databases", "read_connections", "read_deployments"}
FirstFetches == <<"get_project_with_token", "get_requirements_with_token",
                  "get_artifacts_with_token", "get_specifications_with_token",
                  "get_canvas_nodes_with_token", "get_repos_with_token",
                  "get_databases_with_token", "get_database_connections_with_token",
                  "get_deployments_with_token">>
ReadStatusEvents ==
  SelectSeq(stream, LAMBDA e : e.event = "status" /\ e.phase \in ReadPhases)
FirstFetchCalls ==
  SelectSeq(calls, LAMBDA c : \E k \in 1..Len(FirstFetches) : c.name = FirstFetches[k])
KeyMissing == pc = "closed" /\ ~geminiKey

\* C15: the nine reads run once each, one after another, in the order
\* settings, requirements, artifacts, specifications, canvas, repoStructure,
\* databases, connections, deployments, whichever of them failed; the
\* synthesis starts only after the ninth read has returned.
C15_NineReadsInOrder ==
  /\ Len(toolResults) <= Len(ReadOrder)
  /\ \A i \in 1..Len(toolResults) : toolResults[i].tool = ReadOrder[i]
  /\ Len(ReadStatusEvents) = Len(toolResults)
  /\ Len(FirstFetchCalls) = Len(toolResults)
  /\ \A i \in 1..Len(FirstFetchCalls) : FirstFetchCalls[i].name = FirstFetches[i]
  /\ pc = "read" => Len(toolResults) = readIdx - 1
  /\ (pc \notin {"start", "read"} /\ ~KeyMissing) => Len(toolResults) = Len(ReadOrder)
  /\ (HasEvent("status") /\ \E k \in 1..Len(stream) : stream[k].phase = "synthesis")
       => Len(toolResults) = Len(ReadOrder)

C15_Witness ==
  /\ pc = "outline"
  /\ Len(toolResults) = Len(ReadOrder)
  /\ ~toolResults[1].success
  /\ ~toolResults[4].success
  /\ toolResults[5].success
  /\ toolResults[9].success

\* the read a fetch belongs to
FetchOwner(name) ==
  CASE name = "get_canvas_edges_with_token" -> 5
    [] name = "get_repo_files_with_token" -> 6
    [] OTHER -> CHOOSE k \in 1..Len(FirstFetches) : FirstFetches[k] = name
IsFetch(c) ==
  \/ c.name \in {"get_canvas_edges_with_token", "get_repo_files_with_token"}
  \/ \E k \in 1..Len(FirstFetches) : c.name = FirstFetches[k]
\* read i has returned and one of the fetches it issued returned an error
FetchFailedIn(i) ==
  /\ i <= Len(toolResults)
  /\ \E c \in 1..Len(calls) :
       IsFetch(calls[c]) /\ FetchOwner(calls[c].name) = i /\ ~calls[c].ok
EntriesOf(i) == SelectSeq(blackboard, LAMBDA e : e.source = ReadOrder[i])

\* C16: a read one of whose fetches returned an error returns success=false,
\* leaves no entry in the in-memory blackboard, streams no blackboard event,
\* issues no append rpc, and issues its first fetch once only.
C16_FetchErrorFailsRead ==
  \A i \in 1..Len(ReadOrder) :
    FetchFailedIn(i) =>
      /\ ~toolResults[i].success
      /\ EntriesOf(i) = <<>>
      /\ \A k \in 1..Len(StreamedEntries) : StreamedEntries[k].source # ReadOrder[i]
      /\ \A k \in 1..Len(AppendedEntries) : AppendedEntries[k].source # ReadOrder[i]
      /\ Len(SelectSeq(calls, LAMBDA c : c.name = FirstFetches[i])) = 1

\* the category of read k holds at least one item
Populated(k) ==
  /\ k \notin store.failing
  /\ store.items > 0
  /\ k = 6 => ~store.secondaryFails
Weight(k, w) == IF Populated(k) THEN w ELSE 0
ExpectedScore ==
  Weight(2, 15) + Weight(5, 20) + Weight(6, 25) + Weight(4, 15) + Weight(3, 10)
    + Weight(7, 8) + Weight(9, 7)
Scored == pc = "outline"

\* C17: completionScore is the sum of the weights (requirements 15,
\* architecture 20, code 25, specs 15, artifacts 10, databases 8,
\* deployments 7) of the categories that hold at least one item: 0 when none
\* does, 100 when all seven do, always within 0..100; a category whose read
\* failed counts as empty.
C17_ScoreIsWeightSum ==
  Scored =>
    /\ completionScore = ExpectedScore
    /\ completionScore \in 0..100
    /\ (\A k \in {2, 3, 4, 5, 6, 7, 9} : ~Populated(k)) => completionScore = 0
    /\ (\A k \in {2, 3, 4, 5, 6, 7, 9} : Populated(k)) => completionScore = 100

C17_Witness ==
  /\ Scored
  /\ store.items > 0
  /\ store.failing = {5, 8}
  /\ completionScore = 80

\* C18: without the LLM API key the run ends before any work: no read, no
\* LLM call and no update of the data store precedes the error, and the
\* stream carries one error event, its last.
C18_NoWorkBeforeKeyError ==
  KeyMissing =>
    /\ calls = <<>>
    /\ toolResults = <<>>
    /\ Len(SelectSeq(stream, LAMBDA e : e.event = "error")) = 1
    /\ stream[Len(stream)].event = "error"

(***************************************************************************)
(* Claims about the end of a run and the slide loop (under Spec, SpecFair) *)
(***************************************************************************)
TerminalEvents == SelectSeq(stream, LAMBDA e : e.event \in {"complete", "error"})
OneTerminalAtEnd ==
  /\ Len(TerminalEvents) <= 1
  /\ Len(TerminalEvents) = 1
       => (pc = "closed" /\ stream[Len(stream)].event \in {"complete", "error"})
  /\ pc = "closed" => Len(TerminalEvents) = 1

\* C19: every run ends: its stream is closed after exactly one terminal
\* event, complete or error, which is the last event of the stream; complete
\* and error never both occur, and a run that throws emits one error event.
C19_EndsWithOneTerminalEvent == []OneTerminalAtEnd /\ <>(pc = "closed")

\* C20: a failure while generating the slide of an item never aborts the
\* slide loop and never produces an error event: once the loop has started
\* there is no error event, and when it is left every item has its slide.
C20_SlideFailureNeverAborts ==
  slideOutline # <<>> =>
    /\ ~HasEvent("error")
    /\ pc \notin {"outline", "slides"} => Len(slidesJson) = Len(slideOutline)


(***************************************************************************)
(* Claims about the basic outline and the blackboard (under Spec)          *)
(***************************************************************************)
OutlineFailed == goPc = "done" /\ goResult.threw
PastOutline == pc \in {"slides", "enrich", "images", "saving", "closed"} /\ slideOutline # <<>>
BasicLayouts == <<"title-cover", "quote", "stats-grid", "bullets">>

\* C21: when generateSlideOutline fails the run goes on to the slide loop
\* with an outline of exactly 4 items, of order 1..4 and of layouts
\* title-cover, quote, stats-grid, bullets, whatever N is, and no error event
\* is emitted; the loop then yields 4 slides, the first of layout title-cover.
C21_BasicOutlineOnFailure ==
  (OutlineFailed /\ pc # "outline") =>
    /\ PastOutline
    /\ Len(slideOutline) = Len(BasicLayouts)
    /\ \A i \in 1..Len(slideOutline) :
         /\ Get(slideOutline[i], <<"order">>) = JNum(i)
         /\ Get(slideOutline[i], <<"layoutId">>) = Str(BasicLayouts[i])
    /\ ~HasEvent("error")
    /\ pc # "slides" =>
         /\ Len(slidesJson) = Len(BasicLayouts)
         /\ Len(SlideEvents) = Len(BasicLayouts)
         /\ slidesJson[1].layoutId = Str("title-cover")

C21_Witness ==
  /\ OutlineFailed
  /\ outlineReply.ok
  /\ targetSlides = Len(BasicLayouts)
  /\ pc = "closed"
  /\ Len(slidesJson) = Len(BasicLayouts)

IsPrefix(p, q) == Len(p) <= Len(q) /\ SubSeq(q, 1, Len(p)) = p
\* the updates of the presentation that store it as completed
FinalSaves ==
  SelectSeq(calls, LAMBDA c : c.name = "update_presentation_with_token"
                              /\ c.status = "completed")
FinalSaveFull ==
  \A i \in 1..Len(FinalSaves) :
    /\ "p_blackboard" \in FinalSaves[i].has
    /\ FinalSaves[i].blackboard = StreamedEntries
    /\ FinalSaves[i].blackboard = blackboard

\* C22: the in-memory blackboard only grows at its end: every step leaves
\* the entries it holds in place and unchanged; and the blackboard written
\* by the final save is the sequence of the blackboard events of the stream.
C22_AppendOnly == [][IsPrefix(blackboard, blackboard')]_vars /\ []FinalSaveFull

C22_Witness ==
  /\ pc = "closed"
  /\ Len(FinalSaves) = 1
  /\ Len(blackboard) > 3
  /\ blackboard[Len(blackboard)].source = "image_generation"


(***************************************************************************)
(* Claims about the slides (under Spec)                                    *)
(***************************************************************************)
\* the turn of the slide loop just taken has appended the slide of item
\* slideIdx from the reply llmReply
SlideJustMade ==
  /\ pc \in {"slides", "enrich"}
  /\ slideIdx >= 1
  /\ Len(slidesJson) = slideIdx
ReplyIsNoObject(reply) == reply.ok /\ ~IsObject(parseAgentResponseText(reply.text))
\* one region, of regionId "content" and type "richtext", with the
\* keyContent items of the outline item in bold
IsFallbackContent(content, item) ==
  /\ Len(content) = 1
  /\ Get(content[1], <<"regionId">>) = Str("content")
  /\ Get(content[1], <<"type">>) = Str("richtext")
  /\ Get(Get(content[1], <<"data">>), <<"text">>)
       = JStr(BoldJoin(Get(item, <<"keyContent">>).kids))

\* C25: when the reply for a slide parses to anything but a JSON object
\* (null, an array, a primitive) the slide of the item is the fallback one:
\* exactly one content region, of regionId "content" and type "richtext",
\* that renders the keyContent items of the item as emphasized text.
C25_NonObjectReplyGivesFallback ==
  (SlideJustMade /\ ReplyIsNoObject(llmReply)) =>
    IsFallbackContent(slidesJson[slideIdx].content, slideOutline[slideIdx])


(***************************************************************************)
(* Claims about the entries of a read (under SpecCollect)                  *)
(***************************************************************************)
\* C26: a read that succeeded has appended at least 1 and at most 5
\* blackboard entries, whatever the number of rows it fetched.
C26_OneToFiveEntries ==
  \A i \in 1..Len(toolResults) :
    toolResults[i].success => Len(EntriesOf(i)) \in 1..5


(***************************************************************************)
(* Claims about the enrichment pass (under SpecImages)                     *)
(***************************************************************************)
ImageCalls == SelectSeq(calls, LAMBDA c : c.kind = "image")
\* the positions of the slides that carry an image prompt
PromptPositions ==
  SelectSeq([j \in 1..Len(slidesJson) |-> j], LAMBDA j : Truthy(slidesJson[j].imagePrompt))

\* C30: the enrichment pass calls the image function at most 5 times in a
\* run, each time for a slide that carries an imagePrompt and has no
\* imageUrl, the slides being taken in slide order, the first ones first.
C30_AtMostFiveImageCalls ==
  /\ Len(ImageCalls) <= 5
  /\ Len(ImageCalls) <= Len(PromptPositions)
  /\ \A i \in 1..Len(ImageCalls) :
       /\ Truthy(ImageCalls[i].slides[1].imagePrompt)
       /\ ~Truthy(ImageCalls[i].slides[1].imageUrl)
       /\ ImageCalls[i].slides[1].order = JNum(PromptPositions[i])
  /\ pc \in {"saving", "closed"} => Len(ImageCalls) = Min(5, Len(PromptPositions))

C30_Witness ==
  /\ pc = "closed"
  /\ Len(PromptPositions) = 6
  /\ Len(ImageCalls) = 5
  /\ \E i \in 1..Len(ImageCalls) : ~ImageCalls[i].ok
  /\ \E i \in 1..Len(ImageCalls) : ImageCalls[i].ok


(***************************************************************************)
(* Claims about the slide prompt (under SpecSlides)                        *)
(***************************************************************************)
SlideCalls == SelectSeq(calls, LAMBDA c : c.kind = "llm" /\ c.name = "slide")

\* C27: the prompt for an outline item names the titles of at most 3
\* preceding and at most 3 following outline items, whatever the item and
\* the length of the outline.
C27_AtMostThreeEachSide ==
  \A i \in 1..Len(SlideCalls) :
    /\ Len(SlideCalls[i].prev) <= 3
    /\ Len(SlideCalls[i].next) <= 3


(***************************************************************************)
(* Claims about two runs at once (under SpecTwoRuns)                       *)
(***************************************************************************)
\* run r after k steps taken with no other run around
RECURSIVE SoloRun(_, _)
SoloRun(run, k) ==
  IF k = 0 THEN NewRun(run.id, run.pid, run.reads, run.n)
  ELSE RunStepOf(1, <<SoloRun(run, k - 1)>>)
DistinctIds == \A r, q \in DOMAIN runs : r # q => runs[r].pid # runs[q].pid

EntriesBy(row, r) ==
  SelectSeq(row.blackboard,
            LAMBDA e : \E k \in 1..Len(runs[r].blackboard) : runs[r].blackboard[k] = e)

\* C24: the writes to a presentation row are unversioned overwrites, the
\* last write wins: whatever the row holds, and whoever wrote it, a
\* checkpoint leaves it 'generating' with the slides of the run that wrote
\* the checkpoint, the final save leaves it 'completed' with the slides and
\* the blackboard of the run that saved, an append adds the entry to the
\* stored blackboard.
C24_LastWriteWins ==
  [][\A r \in DOMAIN runs :
       runs'[r] # runs[r] =>
         LET before == presentations[runs[r].pid]
             row == presentations'[runs[r].pid]
             mine == runs'[r]
         IN /\ (runs[r].pc = "slides" /\ checkpointDue(Len(runs[r].slidesJson), mine.n))
                 => /\ row.status = "generating"
                    /\ row.slides = mine.slidesJson
                    /\ row.blackboard = before.blackboard
            /\ runs[r].pc = "saving"
                 => /\ row.status = "completed"
                    /\ row.slides = mine.slidesJson
                    /\ row.blackboard = mine.blackboard
            /\ runs[r].pc \in {"read", "enrich"}
                 => /\ row.blackboard
                         = Append(before.blackboard, mine.blackboard[Len(mine.blackboard)])
                    /\ row.status = before.status
                    /\ row.slides = before.slides]_vars

\* the race: a row saved as 'completed' by one run, then overwritten by a
\* checkpoint of the other run with fewer slides, the stored blackboard
\* holding entries of both runs
C24_Witness ==
  /\ Len(runs) = 2
  /\ \E p \in PresentationIds :
       LET row == presentations[p]
           last == Len(row.log)
       IN /\ row.status = "generating"
          /\ last >= 2
          /\ row.log[last].status = "generating"
          /\ Len(row.slides) = row.log[last].count
          /\ \E i \in 1..(last - 1) :
               /\ row.log[i].status = "completed"
               /\ row.log[i].by # row.log[last].by
               /\ row.log[i].count > row.log[last].count
          /\ \A r \in DOMAIN runs : EntriesBy(row, r) # <<>>


\* the regions of a slide that hold an image
ImageRegions(slide) ==
  SelectSeq(slide.content, LAMBDA c : Get(c, <<"type">>) = Str("image"))
\* slide is the slide the loop left at position j, but for an image url and
\* image regions after the regions it had
EnrichedOnly(slide, j) ==
  \E kind \in SlideKinds :
    \E was \in {LoopSlide(kind, j)} :
      /\ [slide EXCEPT !.imageUrl = was.imageUrl, !.content = was.content] = was
      /\ SubSeq(slide.content, 1, Len(was.content)) = was.content
      /\ Len(ImageRegions(slide)) = Len(slide.content) - Len(was.content)
OkImageCalls == SelectSeq(ImageCalls, LAMBDA c : c.ok)

\* C31: the enrichment pass adds, removes, reorders and regenerates no
\* slide: id, order, layoutId, title and the regions a slide had stay; a
\* slide changes only by getting an imageUrl and at most one image region;
\* a failed image generation changes nothing and streams no error event.
C31_EnrichmentOnlyAttaches ==
  /\ \A j \in 1..Len(slidesJson) :
       /\ EnrichedOnly(slidesJson[j], j)
       /\ Len(ImageRegions(slidesJson[j])) <= 1
       /\ ImageRegions(slidesJson[j]) # <<>> => Truthy(slidesJson[j].imageUrl)
  /\ OkImageCalls = <<>> =>
       \A j \in 1..Len(slidesJson) : \E kind \in SlideKinds : slidesJson[j] = LoopSlide(kind, j)
  /\ \A e \in 1..Len(stream) : stream[e].event # "error"


\* the url the image function returned to the i-th request
UrlOf(i) == JStr(<<"img">> \o Digits(i))

\* C39: an image url is attached to exactly the slide whose imagePrompt was
\* sent to the image function, whatever ids the slides carry (equal ids on
\* different slides included): no slide holds an image made from the prompt
\* of another slide.
C39_ImageGoesToItsSlide ==
  /\ \A i \in 1..Len(ImageCalls) :
       ImageCalls[i].ok =>
         slidesJson[ImageCalls[i].slides[1].order.n].imageUrl = UrlOf(i)
  /\ \A j \in 1..Len(slidesJson) :
       /\ Truthy(slidesJson[j].imageUrl) =>
            \E i \in 1..Len(ImageCalls) :
              /\ ImageCalls[i].ok
              /\ slidesJson[j].imageUrl = UrlOf(i)
              /\ ImageCalls[i].slides[1].imagePrompt = slidesJson[j].imagePrompt
       /\ \A c \in 1..Len(ImageRegions(slidesJson[j])) :
            Get(Get(ImageRegions(slidesJson[j])[c], <<"data">>), <<"alt">>)
              = slidesJson[j].imagePrompt


(***************************************************************************)
(* Claims about the slide list (under SpecSlides)                          *)
(***************************************************************************)
\* C32: a successful slide generation normalises its result: a missing id,
\* title or notes is filled (generated id, title and purpose of the outline
\* item), content that is no array becomes the empty list; so every slide
\* of the slide list has a non-empty id, a title and a list as content.
C32_SlidesNormalised ==
  \A j \in 1..Len(slidesJson) :
    /\ Truthy(slidesJson[j].id)
    /\ Truthy(slidesJson[j].title)
    /\ IsArray(JArr(slidesJson[j].content))


(***************************************************************************)
(* Claims about the calls of a run (under Spec)                            *)
(***************************************************************************)
OutlineCalls == SelectSeq(calls, LAMBDA c : c.kind = "llm" /\ c.name = "outline")
\* the outline item a slide request was made for
ItemOf(call) == Get(call.slides[1], <<"order">>).n
OutlineKnown == pc \in {"slides", "enrich", "images", "saving", "closed"} /\ goPc = "done"

\* C33: in one run the LLM is called at most once for the outline and at
\* most once for each outline item, a failed call is not repeated: the
\* requests for slides follow the outline request and go through the items
\* in order, each item once, and there are at most 1 + the length of the
\* outline LLM calls.
C33_OneCallPerItem ==
  /\ Len(OutlineCalls) <= 1
  /\ Len(LlmCalls) = Len(OutlineCalls) + Len(SlideCalls)
  /\ SlideCalls # <<>> =>
       /\ OutlineKnown
       /\ Len(OutlineCalls) = 1
       /\ LlmCalls[1].name = "outline"
  /\ \A i \in 1..Len(SlideCalls) :
       /\ ItemOf(SlideCalls[i]) \in 1..Len(slideOutline)
       /\ SlideCalls[i].slides[1] = slideOutline[ItemOf(SlideCalls[i])]
       /\ \A j \in 1..(i - 1) : ItemOf(SlideCalls[j]) < ItemOf(SlideCalls[i])
  /\ OutlineKnown => Len(LlmCalls) <= 1 + Len(slideOutline)

C33_Witness ==
  /\ pc = "closed"
  /\ Len(slideOutline) >= 3
  /\ Len(LlmCalls) = 1 + Len(slideOutline)
  /\ ~SlideCalls[1].ok
  /\ SlideCalls[2].ok
  /\ ~OutlineCalls[1].ok


\* the positions in calls of the updates that carry the blackboard
BlackboardUpdates ==
  SelectSeq([c \in 1..Len(calls) |-> c],
            LAMBDA c : calls[c].name = "update_presentation_with_token"
                       /\ "p_blackboard" \in calls[c].has)
\* the entries appended by the calls before position c
AppendedBefore(c) ==
  LET before == SelectSeq(SubSeq(calls, 1, c - 1), LAMBDA x : x.name = AppendName)
  IN [i \in 1..Len(before) |-> before[i].blackboard[1]]
FirstFetchesBefore(c) ==
  SelectSeq(SubSeq(calls, 1, c - 1),
            LAMBDA x : \E k \in 1..Len(FirstFetches) : x.name = FirstFetches[k])

\* C34: the first update that carries the blackboard is written after the
\* nine reads have returned and the two synthesis entries (estimate, then
\* narrative) have been appended, and before the first LLM call; it holds
\* the whole in-memory blackboard of that moment and a status.
C34_BlackboardCheckpointFirst ==
  /\ LlmCalls # <<>> => BlackboardUpdates # <<>>
  /\ BlackboardUpdates # <<>> =>
       \E f \in {BlackboardUpdates[1]} :
       \E entries \in {AppendedBefore(f)} :
         /\ Len(FirstFetchesBefore(f)) = Len(ReadOrder)
         /\ Len(toolResults) = Len(ReadOrder)
         /\ Len(entries) >= 2
         /\ entries[Len(entries) - 1] = Entry("synthesis", "estimate")
         /\ entries[Len(entries)] = Entry("synthesis", "narrative")
         /\ \A c \in 1..(f - 1) : calls[c].kind # "llm"
         /\ calls[f].blackboard = entries
         /\ entries = SubSeq(blackboard, 1, Len(entries))
         /\ "p_status" \in calls[f].has
         /\ calls[f].status = "generating_slides"

C34_Witness ==
  /\ pc = "closed"
  /\ Len(LlmCalls) >= 2
  /\ Len(BlackboardUpdates) = 2
  /\ Len(calls[BlackboardUpdates[1]].blackboard) >= 4
  /\ Len(calls[BlackboardUpdates[1]].blackboard) < Len(blackboard)
  /\ \E i \in 1..Len(toolResults) : ~toolResults[i].success


\* the positions in calls of the writes to the data store
StoreWrites ==
  SelectSeq([c \in 1..Len(calls) |-> c],
            LAMBDA c : calls[c].name \in {"update_presentation_with_token", AppendName})
CompletedWrites ==
  SelectSeq(StoreWrites, LAMBDA c : "p_status" \in calls[c].has
                                    /\ calls[c].status = "completed")

\* C37: a run writes the status 'completed' at most once, with its last
\* write to the data store, and only when there is a slide for every item
\* of the outline; a run that ends with an error event does not write it.
C37_CompletedOnceAtEnd ==
  /\ Len(CompletedWrites) <= 1
  /\ CompletedWrites # <<>> =>
       /\ CompletedWrites[1] = StoreWrites[Len(StoreWrites)]
       /\ OutlineKnown
       /\ Len(slidesJson) = Len(slideOutline)
       /\ Len(calls[CompletedWrites[1]].slides) = Len(slideOutline)
       /\ \A j \in 1..Len(slideOutline) :
            calls[CompletedWrites[1]].slides[j].order = Get(slideOutline[j], <<"order">>)
  /\ HasEvent("error") => CompletedWrites = <<>>

C37_Witness ==
  /\ pc = "closed"
  /\ Len(CompletedWrites) = 1
  /\ Len(slideOutline) >= 2
  /\ \E i \in 1..Len(SlideCalls) : ~SlideCalls[i].ok
  /\ Len(StoreWrites) > Len(blackboard) + 3


CompleteEvents == SelectSeq(stream, LAMBDA e : e.event = "complete")

\* C38: the complete event carries as slideCount the number of slide events
\* streamed in the run, which is the length of the slide list of the final
\* save, and as blackboardCount the number of blackboard events streamed.
C38_CompleteCountsMatch ==
  /\ Len(CompleteEvents) <= 1
  /\ CompleteEvents # <<>> =>
       /\ CompleteEvents[1].current = Len(SlideEvents)
       /\ Len(CompletedWrites) = 1
       /\ CompleteEvents[1].current = Len(calls[CompletedWrites[1]].slides)
       /\ CompleteEvents[1].total = Len(BlackboardEvents)

C38_Witness ==
  /\ CompleteEvents # <<>>
  /\ CompleteEvents[1].current >= 3
  /\ CompleteEvents[1].total > CompleteEvents[1].current
  /\ Len(ImageCalls) >= 1


\* the updates of a run that write the slide list, in order
SlideWrites ==
  SelectSeq(calls, LAMBDA c : c.name = "update_presentation_with_token"
                              /\ "p_slides" \in c.has)
\* later is the slide earlier, possibly enriched: an image url, regions
\* added after those it had
SameSlideEnriched(earlier, later) ==
  /\ [later EXCEPT !.imageUrl = earlier.imageUrl, !.content = earlier.content] = earlier
  /\ IsPrefix(earlier.content, later.content)

\* C40 (as stated): every slide list written by a run is a prefix, same
\* slides in the same order, of every slide list the run writes later.
C40_WrittenListsArePrefixes ==
  \A i, j \in 1..Len(SlideWrites) :
    i < j => IsPrefix(SlideWrites[i].slides, SlideWrites[j].slides)

\* C40 (amended): every slide list written by a run is a prefix of every
\* slide list the run writes later, but for the enrichment of its slides:
\* the later list is at least as long and holds at each position of the
\* earlier list the same slide (id, order, layout, title, subtitle, notes,
\* image prompt, the regions it had), to which only an image url and
\* further regions may have been added.
C40_PrefixesUpToEnrichment ==
  \A i, j \in 1..Len(SlideWrites) :
    i < j =>
      /\ Len(SlideWrites[i].slides) <= Len(SlideWrites[j].slides)
      /\ \A k \in 1..Len(SlideWrites[i].slides) :
           SameSlideEnriched(SlideWrites[i].slides[k], SlideWrites[j].slides[k])

C40_Witness ==
  /\ pc = "closed"
  /\ Len(SlideWrites) = 3
  /\ Len(SlideWrites[1].slides) < Len(SlideWrites[2].slides)
  /\ SlideWrites[2].slides # SlideWrites[3].slides
  /\ \E k \in 1..Len(SlideWrites[1].slides) :
       /\ SlideWrites[1].slides[k].content # <<>>
       /\ SlideWrites[3].slides[k].content # SlideWrites[1].slides[k].content


(***************************************************************************)
(* Claims about the concept extraction (under SpecExtract)                 *)
(***************************************************************************)
Failures == SelectSeq(extract.fetches, LAMBDA f : f # "ok")

\* C35: the upstream model is called at most MAX_RETRIES = 3 times for a
\* request and not again after a success; after the failed attempt k, k < 3,
\* the function waits RETRY_DELAY_MS * k (2000 ms, then 4000 ms) before
\* attempt k + 1, and it does not wait after the last failed attempt.
C35_ThreeAttemptsLinearDelay ==
  /\ Len(extract.fetches) <= 3
  /\ \A i \in 1..(Len(extract.fetches) - 1) : extract.fetches[i] # "ok"
  /\ Len(extract.waits) = Min(Len(Failures), 2)
  /\ \A k \in 1..Len(extract.waits) : extract.waits[k] = 2000 * k
  /\ extract.pc = "attempt" => Len(extract.fetches) = Len(Failures)
  /\ extract.pc \in {"respond", "done"} =>
       \/ extract.fetches[Len(extract.fetches)] = "ok"
       \/ Len(Failures) = 3

C35_Witness ==
  /\ extract.pc = "done"
  /\ Len(Failures) = 3
  /\ extract.waits = <<2000, 4000>>

\* C36: when an attempt succeeds in calling the model and parsing its
\* reply, the response reports success = true with the concepts of that
\* attempt, also after failed attempts and also for an empty concept list;
\* success = false is returned only when all attempts have failed.
C36_SuccessIffAnAttemptSucceeded ==
  extract.response.sent =>
    /\ extract.response.success <=> (\E i \in 1..Len(extract.fetches) : extract.fetches[i] = "ok")
    /\ extract.response.success => extract.response.concepts = extract.concepts
====
